---- MODULE Spec2Model ----
(***************************************************************************)
(* A model of tnef2mime: the TNEF container reader (read_tnef), the        *)
(* front-end dispatcher (run), the compressed-RTF decoder                  *)
(* (decode_compressed_rtf) and the TNEF property decoder                   *)
(* (decode_property / decode_properties).                                  *)
(*                                                                         *)
(* Bytes are the integers 0..255.  A u16 is an integer 0..65535.  A u32    *)
(* is kept as the pair <<hi, lo>> of its two 16-bit halves, because the    *)
(* values the program handles (0xE011CFD0, lengths of 0xFFFFFFFF) do not   *)
(* fit the model checker's integers; comparisons and conversions are made  *)
(* on the halves.  A stream position is the number of bytes consumed.      *)
(***************************************************************************)
EXTENDS Integers, Sequences, FiniteSets, TLC

VARIABLES
    \* the byte buffer and the position of the cursor over it
    \* (main.rs: buf, buf_cursor; read_tnef: reader)
    buf, pos,
    \* run(): position in the function, the peeked magic, the reader that was
    \* handed the cursor and the cursor position at that hand-off
    run_pc, magic, callee, callee_pos,
    \* read_tnef(): position in the function, its locals and its return value
    tnef_pc, legacy_key, attributes, attrib_level, attrib_id, length, data_buf,
    tnef_result,
    \* decode_compressed_rtf(): its argument, position in the function, the
    \* position of the cursor over compressed[16..], the dictionary, the output,
    \* the control byte, the index of the bit being decoded, the return value
    compressed, rtf_pc, cursor, dict, ret, control, bit_index, rtf_result,
    \* history: is_decompression_complete has returned true in this call
    end_marker_seen,
    \* history: the literal tokens and the reference tokens read in this call
    literal_tokens, reference_tokens,
    \* decode_properties() and the decode_property() it calls: position in the
    \* functions, the count read, the list built, the type and tag codes and
    \* the id of the property being decoded, the return value
    prop_pc, prop_count, properties, prop_type_u16, prop_tag_u16, prop_full_id,
    prop_result,
    \* the `encoding` argument of decode_properties
    encoding,
    \* history: the offset at which the record of each listed property starts
    record_start,
    \* history: the cursor when the match on prop_type was entered, for each
    \* record that came that far, and the cursor after each value decoded
    value_start, value_end,
    \* read_cfb_msg(): whether the reader holds a well-formed compound file,
    \* and the streams of that file by path (msg)
    container_ok, msg,
    \* read_cfb_msg() and the read_properties() it calls: position in the
    \* functions, the path_prefix and header_length arguments, the bytes of the
    \* property stream and the cursor over them, the header and the list built
    \* by the running read_properties
    cfb_pc, path_prefix, header_length, prop_stream, stream_pos, header,
    cfb_properties,
    \* read_cfb_msg(): its locals and its return value
    msg_properties, header_bytes, recipient_count, attachment_count,
    recipients, attachments, cfb_result,
    \* history: for each record read_properties began, the stream it is in,
    \* its offset, what became of it and the property pushed for it
    record_log,
    \* run(), the loop over tnef.attributes: the encoder, the index of the
    \* attribute at hand, the headers and body found, the bytes last written to
    \* attachment.bin and to email.eml
    encoder, attribute_index, headers, body, attachment_bin, email_eml,
    \* history: for each call of decode_properties made by the loop, the index
    \* of the attribute and the encoder passed
    decode_calls,
    \* PropType::from_base_type and to_base_type applied in turn: which of the
    \* two is due, the value handed to the first, the value it returned and
    \* the value the second returned
    conv_pc, conv_in, conv_mid, conv_out

runVars  == <<run_pc, magic, callee, callee_pos>>
tnefVars == <<tnef_pc, legacy_key, attributes, attrib_level, attrib_id, length,
              data_buf, tnef_result>>
rtfVars  == <<compressed, rtf_pc, cursor, dict, ret, control, bit_index,
              rtf_result, end_marker_seen, literal_tokens, reference_tokens>>
propVars == <<encoding, prop_pc, prop_count, properties, prop_type_u16, prop_tag_u16,
              prop_full_id, prop_result, record_start, value_start,
              value_end>>
cfbVars  == <<container_ok, msg, cfb_pc, path_prefix, header_length,
              prop_stream, stream_pos, header, cfb_properties, msg_properties,
              header_bytes, recipient_count, attachment_count, recipients,
              attachments, cfb_result, record_log>>
loopVars == <<encoder, attribute_index, headers, body, attachment_bin,
              email_eml, decode_calls>>
convVars == <<conv_pc, conv_in, conv_mid, conv_out>>
vars == <<buf, pos, runVars, tnefVars, rtfVars, propVars, cfbVars, loopVars,
          convVars>>

notTnefVars == <<runVars, rtfVars, propVars, cfbVars, loopVars,
                convVars>>
notRunVars  == <<tnefVars, rtfVars, propVars, cfbVars, loopVars,
                convVars>>
notRtfVars  == <<buf, pos, runVars, tnefVars, propVars, cfbVars, loopVars,
                convVars>>
notPropVars == <<runVars, tnefVars, rtfVars, cfbVars, loopVars,
                convVars>>
notCfbVars  == <<buf, pos, runVars, tnefVars, rtfVars, propVars, loopVars,
                convVars>>

(***************************************************************************)
(* Bounds of the model.                                                    *)
(***************************************************************************)
\* attribute records in an enumerated TNEF stream
MaxAttrs == 2
\* payload bytes of an enumerated (short) attribute record
MaxLen == 2
\* bytes after the header of an enumerated compressed-RTF input
MaxBody == 5
\* records in an enumerated stream of several properties
MaxProps == 2
\* read_properties: the most records in a property stream of the inputs
MaxCfbRecords == 3
\* read_cfb_msg: the largest recipient and attachment counts of the inputs
MaxRecipients == 2
MaxAttachments == 1
\* run(): the most attributes in an enumerated list of the file read
MaxAttributes == 3

(***************************************************************************)
(* binread.rs: typed reads over a byte stream.                             *)
(***************************************************************************)
Byte == 0..255

\* read_exact(n) succeeds iff n more bytes are available (UnexpectedEof otherwise)
CanRead(b, p, n) == p + n =< Len(b)

\* u8::from_be_bytes
read_u8(b, p) == b[p + 1]

\* u16::from_le_bytes
read_u16_le(b, p) == b[p + 1] + 256 * b[p + 2]

\* u16::from_be_bytes
read_u16_be(b, p) == 256 * b[p + 1] + b[p + 2]

\* mutant: the four bytes taken most significant first
read_u32_be(b, p) == <<256 * b[p + 1] + b[p + 2], 256 * b[p + 3] + b[p + 4]>>

\* u32::from_le_bytes, as <<high half, low half>>
read_u32_le(b, p) == <<b[p + 3] + 256 * b[p + 4], b[p + 1] + 256 * b[p + 2]>>

\* read_i32_le: `val as i32`; the value is negative iff bit 31 is set
IsNegativeI32(u) == u[1] >= 32768

\* usize::try_from(i32) of a non-negative value
UsizeOfI32(u) == u[1] * 65536 + u[2]

(***************************************************************************)
(* tnef/mod.rs: read_tnef.                                                 *)
(***************************************************************************)
\* pub const TNEF_SIGNATURE: u32 = 0x223E9F78
TNEF_SIGNATURE == <<8766, 40824>>

\* the wrapping u16 sum of the payload bytes data[lo..hi]: the loop of read_tnef
\* (my_checksum = my_checksum.wrapping_add(b) for each byte), evaluated by
\* halves so that a long payload does not nest one evaluation per byte
\* (addition modulo 2^16 is associative)
RECURSIVE wrapping_sum(_, _, _)
wrapping_sum(data, lo, hi) ==
    IF lo > hi THEN 0
    ELSE IF lo = hi THEN data[lo] % 65536
    ELSE LET mid == (lo + hi) \div 2
         IN  (wrapping_sum(data, lo, mid) + wrapping_sum(data, mid + 1, hi))
                 % 65536

\* mutant: the sum kept in a wider accumulator, never wrapped to 16 bits
RECURSIVE unwrapped_sum(_, _, _)
unwrapped_sum(data, lo, hi) ==
    IF lo > hi THEN 0
    ELSE IF lo = hi THEN data[lo]
    ELSE unwrapped_sum(data, lo, (lo + hi) \div 2)
             + unwrapped_sum(data, (lo + hi) \div 2 + 1, hi)

my_checksum_unwrapped(data) == unwrapped_sum(data, 1, Len(data))

my_checksum(data) == wrapping_sum(data, 1, Len(data))

NoError == [kind |-> "None", expected |-> <<0, 0>>, obtained |-> <<0, 0>>,
            calculated |-> 0]
IoError == [NoError EXCEPT !.kind = "Io"]
NoFile  == [legacy_key |-> 0, attributes |-> <<>>]

Running == [status |-> "Running", error |-> NoError, file |-> NoFile]
Err(e)  == [status |-> "Err", error |-> e, file |-> NoFile]
Ok(f)   == [status |-> "Ok", error |-> NoError, file |-> f]

\* TnefAttribute { level, id, data, checksum }; level and id are kept as the
\* codes read (their enums are total conversions that keep the code)
TnefAttribute(level, id, data, checksum) ==
    [level |-> level, id |-> id, data |-> data, checksum |-> checksum]

\* mutant: the new attribute put in front of the list
PushAttributeInFront(list, a) == <<a>> \o list

\* attributes.push(...)
PushAttribute(list, a) == Append(list, a)

\* mutant: only the low half of the signature compared
SignatureLowHalfDiffers(signature) == signature[2] # TNEF_SIGNATURE[2]

\* if signature != TNEF_SIGNATURE
SignatureDiffers(signature) == signature # TNEF_SIGNATURE

\* mutant: the end of input where a level is expected treated as any other
\* read error
EofAtLevelIsError(key, list) == Err(IoError)

\* Err(e) if e.kind() == UnexpectedEof => break; then
\* Ok(TnefFile { legacy_key, attributes })
EofAtLevel(key, list) == Ok([legacy_key |-> key, attributes |-> list])

\* checksum != my_checksum
ChecksumDiffers(stored, data) == stored # my_checksum(data)

\* the locals of one loop iteration, out of scope between iterations
ClearRecord ==
    /\ attrib_level' = 0
    /\ attrib_id' = <<0, 0>>
    /\ length' = 0
    /\ data_buf' = <<>>

TnefReturn(r) ==
    /\ tnef_pc' = "done"
    /\ tnef_result' = r

\* let signature = reader.read_u32_le()?; if signature != TNEF_SIGNATURE { Err }
ReadSignature ==
    /\ tnef_pc = "signature"
    /\ IF ~CanRead(buf, pos, 4)
       THEN /\ TnefReturn(Err(IoError))
            /\ UNCHANGED pos
       ELSE /\ pos' = pos + 4
            /\ IF SignatureDiffers(read_u32_le(buf, pos))
               THEN TnefReturn(Err([NoError EXCEPT !.kind = "Signature",
                                       !.expected = TNEF_SIGNATURE,
                                       !.obtained = read_u32_le(buf, pos)]))
               ELSE /\ tnef_pc' = "legacy_key"
                    /\ UNCHANGED tnef_result
    /\ UNCHANGED <<buf, notTnefVars, legacy_key, attributes, attrib_level,
                   attrib_id, length, data_buf>>

\* let legacy_key = reader.read_u16_le()?; let mut attributes = Vec::new();
ReadLegacyKey ==
    /\ tnef_pc = "legacy_key"
    /\ IF ~CanRead(buf, pos, 2)
       THEN /\ TnefReturn(Err(IoError))
            /\ UNCHANGED <<pos, legacy_key>>
       ELSE /\ pos' = pos + 2
            /\ legacy_key' = read_u16_le(buf, pos)
            /\ tnef_pc' = "level"
            /\ UNCHANGED tnef_result
    /\ UNCHANGED <<buf, notTnefVars, attributes, attrib_level, attrib_id, length,
                   data_buf>>

\* match reader.read_u8() { Ok(al) => al, Err(UnexpectedEof) => break, ... }
\* and, after the loop, Ok(TnefFile { legacy_key, attributes })
ReadLevel ==
    /\ tnef_pc = "level"
    /\ IF ~CanRead(buf, pos, 1)
       THEN /\ TnefReturn(EofAtLevel(legacy_key, attributes))
            /\ UNCHANGED <<pos, attrib_level>>
       ELSE /\ pos' = pos + 1
            /\ attrib_level' = read_u8(buf, pos)
            /\ tnef_pc' = "id"
            /\ UNCHANGED tnef_result
    /\ UNCHANGED <<buf, notTnefVars, legacy_key, attributes, attrib_id, length,
                   data_buf>>

\* let attrib_id_u32 = reader.read_u32_le()?;
ReadId ==
    /\ tnef_pc = "id"
    /\ IF ~CanRead(buf, pos, 4)
       THEN /\ TnefReturn(Err(IoError))
            /\ UNCHANGED <<pos, attrib_id>>
       ELSE /\ pos' = pos + 4
            /\ attrib_id' = read_u32_le(buf, pos)
            /\ tnef_pc' = "length"
            /\ UNCHANGED tnef_result
    /\ UNCHANGED <<buf, notTnefVars, legacy_key, attributes, attrib_level, length,
                   data_buf>>

\* let length_i32 = reader.read_i32_le()?; let length: usize = try_into or
\* Err(LengthConversion)
ReadLength ==
    /\ tnef_pc = "length"
    /\ IF ~CanRead(buf, pos, 4)
       THEN /\ TnefReturn(Err(IoError))
            /\ UNCHANGED <<pos, length>>
       ELSE /\ pos' = pos + 4
            /\ IF IsNegativeI32(read_u32_le(buf, pos))
               THEN /\ TnefReturn(Err([NoError EXCEPT
                                         !.kind = "LengthConversion",
                                         !.obtained = read_u32_le(buf, pos)]))
                    /\ UNCHANGED length
               ELSE /\ length' = UsizeOfI32(read_u32_le(buf, pos))
                    /\ tnef_pc' = "data"
                    /\ UNCHANGED tnef_result
    /\ UNCHANGED <<buf, notTnefVars, legacy_key, attributes, attrib_level,
                   attrib_id, data_buf>>

\* let mut data_buf = vec![0u8; length]; reader.read_exact(&mut data_buf)?;
ReadData ==
    /\ tnef_pc = "data"
    /\ IF ~CanRead(buf, pos, length)
       THEN /\ TnefReturn(Err(IoError))
            /\ UNCHANGED <<pos, data_buf>>
       ELSE /\ pos' = pos + length
            /\ data_buf' = SubSeq(buf, pos + 1, pos + length)
            /\ tnef_pc' = "checksum"
            /\ UNCHANGED tnef_result
    /\ UNCHANGED <<buf, notTnefVars, legacy_key, attributes, attrib_level,
                   attrib_id, length>>

\* let checksum = reader.read_u16_le()?; the checksum loop; the comparison;
\* attributes.push(TnefAttribute { .. })
ReadChecksum ==
    /\ tnef_pc = "checksum"
    /\ IF ~CanRead(buf, pos, 2)
       THEN /\ TnefReturn(Err(IoError))
            /\ UNCHANGED <<pos, attributes, attrib_level, attrib_id, length,
                           data_buf>>
       ELSE /\ pos' = pos + 2
            /\ IF ChecksumDiffers(read_u16_le(buf, pos), data_buf)
               THEN /\ TnefReturn(Err([NoError EXCEPT
                                         !.kind = "ChecksumMismatch",
                                         !.obtained = <<0, read_u16_le(buf, pos)>>,
                                         !.calculated = my_checksum(data_buf)]))
                    /\ UNCHANGED <<attributes, attrib_level, attrib_id, length,
                                   data_buf>>
               ELSE /\ attributes' = PushAttribute(attributes,
                                        TnefAttribute(attrib_level, attrib_id,
                                            data_buf, read_u16_le(buf, pos)))
                    /\ ClearRecord
                    /\ tnef_pc' = "level"
                    /\ UNCHANGED tnef_result
    /\ UNCHANGED <<buf, notTnefVars, legacy_key>>

NextTnef ==
    \/ ReadSignature
    \/ ReadLegacyKey
    \/ ReadLevel
    \/ ReadId
    \/ ReadLength
    \/ ReadData
    \/ ReadChecksum

(***************************************************************************)
(* main.rs: run, the front-end dispatcher.  The reader it hands the cursor *)
(* to is recorded with the cursor position at the hand-off.                *)
(***************************************************************************)
\* pub const CFB_SIGNATURE: u64 = 0xE1_1A_B1_A1_E0_11_CF_D0, as its four
\* 16-bit quarters, the most significant first
CFB_SIGNATURE == <<57626, 45473, 57361, 53200>>

\* mutant: the high 32 bits taken for the low ones
High32(x) == <<x[1], x[2]>>

\* (x & 0xFF_FF_FF_FF) as u32, of a u64 given by its quarters
Low32(x) == <<x[3], x[4]>>

\* pub const CFB_SIGNATURE_4BYTES: u32 = (CFB_SIGNATURE & 0xFF_FF_FF_FF) as u32
CFB_SIGNATURE_4BYTES == Low32(CFB_SIGNATURE)

\* let magic = buf_cursor.read_u32_le().expect("failed to read file magic")
RunReadMagic ==
    /\ run_pc = "magic"
    /\ IF ~CanRead(buf, pos, 4)
       THEN /\ run_pc' = "panicked: failed to read file magic"
            /\ UNCHANGED <<pos, magic>>
       ELSE /\ magic' = read_u32_le(buf, pos)
            /\ pos' = pos + 4
            /\ run_pc' = "seek"
    /\ UNCHANGED <<buf, callee, callee_pos, notRunVars>>

\* mutant: the cursor left where the peek of the magic put it
RunSeekSkipped ==
    /\ run_pc = "seek"
    /\ run_pc' = "dispatch"
    /\ UNCHANGED <<buf, pos, magic, callee, callee_pos, notRunVars>>

\* buf_cursor.seek(SeekFrom::Start(0))
RunSeek ==
    /\ run_pc = "seek"
    /\ pos' = 0
    /\ run_pc' = "dispatch"
    /\ UNCHANGED <<buf, magic, callee, callee_pos, notRunVars>>

\* if magic == TNEF_SIGNATURE { read_tnef(buf_cursor) }
\* else if magic == CFB_SIGNATURE_4BYTES { read_cfb_msg(buf_cursor) }
\* else { panic!("unknown file format") }
RunDispatch ==
    /\ run_pc = "dispatch"
    /\ IF magic = TNEF_SIGNATURE
       THEN /\ callee' = "read_tnef"
            /\ callee_pos' = pos
            /\ run_pc' = "in read_tnef"
       ELSE IF magic = CFB_SIGNATURE_4BYTES
       THEN /\ callee' = "read_cfb_msg"
            /\ callee_pos' = pos
            /\ run_pc' = "in read_cfb_msg"
       ELSE /\ run_pc' = "panicked: unknown file format"
            /\ UNCHANGED <<callee, callee_pos>>
    /\ UNCHANGED <<buf, pos, magic, notRunVars>>

NextRun ==
    \/ RunReadMagic
    \/ RunSeek
    \/ RunDispatch

(***************************************************************************)
(* tnef/cfb_msg.rs: CompressedRtfDict and decode_compressed_rtf.           *)
(***************************************************************************)
\* const DICTIONARY_CAPACITY: usize = 4096
DICTIONARY_CAPACITY == 4096

\* const INIT_DICTIONARY: [u8; 207], the bytes of the RTF preamble literal
INIT_DICTIONARY ==
    <<123, 92, 114, 116, 102, 49, 92, 97, 110, 115, 105, 92, 109, 97,
       99, 92, 100, 101, 102, 102, 48, 92, 100, 101, 102, 116, 97, 98,
       55, 50, 48, 123, 92, 102, 111, 110, 116, 116, 98, 108, 59, 125,
       123, 92, 102, 48, 92, 102, 110, 105, 108, 32, 92, 102, 114, 111,
       109, 97, 110, 32, 92, 102, 115, 119, 105, 115, 115, 32, 92, 102,
       109, 111, 100, 101, 114, 110, 32, 92, 102, 115, 99, 114, 105, 112,
       116, 32, 92, 102, 100, 101, 99, 111, 114, 32, 77, 83, 32, 83,
       97, 110, 115, 32, 83, 101, 114, 105, 102, 83, 121, 109, 98, 111,
       108, 65, 114, 105, 97, 108, 84, 105, 109, 101, 115, 32, 78, 101,
       119, 32, 82, 111, 109, 97, 110, 67, 111, 117, 114, 105, 101, 114,
       123, 92, 99, 111, 108, 111, 114, 116, 98, 108, 92, 114, 101, 100,
       48, 92, 103, 114, 101, 101, 110, 48, 92, 98, 108, 117, 101, 48,
       13, 10, 92, 112, 97, 114, 32, 92, 112, 97, 114, 100, 92, 112,
       108, 97, 105, 110, 92, 102, 48, 92, 102, 115, 50, 48, 92, 98,
       92, 105, 92, 117, 92, 116, 97, 98, 92, 116, 120>>

\* CompressedRtfDict { data, write_pos, read_pos }.  The 4096 bytes of data
\* are kept as `written`, the cells assigned since new() with the byte each
\* holds; every other cell holds what new() put there (InitialByte).

\* new(): vec![0u8; DICTIONARY_CAPACITY] with INIT_DICTIONARY copied to its start
InitialByte(i) ==
    IF i < Len(INIT_DICTIONARY) THEN INIT_DICTIONARY[i + 1] ELSE 0

\* self.data[i]
DataAt(d, i) ==
    IF i \in DOMAIN d.written THEN d.written[i] ELSE InitialByte(i)

\* self.data, whole
Data(d) == [i \in 0..(DICTIONARY_CAPACITY - 1) |-> DataAt(d, i)]

\* CompressedRtfDict::new
DictNew ==
    [written |-> <<>>, write_pos |-> Len(INIT_DICTIONARY), read_pos |-> 0]

\* the dictionary before `let mut dict = CompressedRtfDict::new()` is reached
NoDict == [written |-> <<>>, write_pos |-> 0, read_pos |-> 0]

\* fn read_from_read_pos: the byte read
ByteAtReadPos(d) == DataAt(d, d.read_pos)

\* fn read_from_read_pos: the dictionary after it
read_from_read_pos(d) ==
    [d EXCEPT !.read_pos = (d.read_pos + 1) % DICTIONARY_CAPACITY]

\* mutant: the write cursor goes on past the last cell
write_at_write_pos_unbounded(d, value) ==
    [d EXCEPT !.written = (d.write_pos :> value) @@ d.written,
              !.write_pos = d.write_pos + 1]

\* fn write_at_write_pos
write_at_write_pos(d, value) ==
    [d EXCEPT !.written = (d.write_pos :> value) @@ d.written,
              !.write_pos = (d.write_pos + 1) % DICTIONARY_CAPACITY]

\* mutant: a literal is put out and not stored
literal_read_unstored(d, value) == d

\* pub fn literal_read
literal_read(d, value) == write_at_write_pos(d, value)

\* pub fn is_decompression_complete
is_decompression_complete(d, offset) == offset = d.write_pos

\* mutant: the stored length taken as the number of bytes to copy
actual_length_as_stored(len) == len

\* let actual_length = usize::from(length) + 2
actual_length(len) == len + 2

\* one iteration of the loop of reference_read: let b =
\* self.read_from_read_pos(); ret.push(b); self.write_at_write_pos(b);
\* st is [dict, bytes]
CopyStep(st) ==
    LET b == ByteAtReadPos(st.dict)
    IN  [dict  |-> write_at_write_pos(read_from_read_pos(st.dict), b),
         bytes |-> Append(st.bytes, b)]

\* the loop of reference_read: n more bytes copied from read_pos to the
\* output and to write_pos (the state after an iteration is bound as a
\* value before the next iteration starts from it)
RECURSIVE ReferenceCopy(_, _)
ReferenceCopy(st, n) ==
    IF n = 0 THEN st
    ELSE CHOOSE after \in {ReferenceCopy(next, n - 1) : next \in {CopyStep(st)}} :
             TRUE

\* the bytes stored one after the other at the write cursor
RECURSIVE write_all(_, _)
write_all(d, bytes) ==
    IF bytes = <<>> THEN d
    ELSE write_all(write_at_write_pos(d, Head(bytes)), Tail(bytes))

\* mutant: the bytes are all taken from the dictionary as it stands before
\* the first of them is stored
reference_read_at_once(d, offset, len) ==
    LET bytes == [i \in 1 .. actual_length(len) |->
                     DataAt(d, (offset + i - 1) % DICTIONARY_CAPACITY)]
    IN  [dict  |-> write_all([d EXCEPT !.read_pos =
                                 (offset + actual_length(len))
                                     % DICTIONARY_CAPACITY], bytes),
         bytes |-> bytes]

\* pub fn reference_read: [dict |-> the dictionary after it, bytes |-> ret]
reference_read(d, offset, len) ==
    ReferenceCopy([dict |-> [d EXCEPT !.read_pos = offset], bytes |-> <<>>],
                  actual_length(len))

\* mutant: the length taken from the low five bits
RefLengthFiveBits(dict_ref) == dict_ref % 32

\* let length = dict_ref & 0b1111
RefLength(dict_ref) == dict_ref % 16

\* let offset = (dict_ref >> 4) & 0b1111_1111_1111
RefOffset(dict_ref) == (dict_ref \div 16) % 4096

\* control & (1 << bit_index) == 0
BitIsClear(c, i) == (c \div (2 ^ i)) % 2 = 0

RtfNoError == [kind |-> "None", expected |-> 0, obtained |-> 0,
               compression_type |-> <<0, 0>>]
RtfRunning == [status |-> "Running", error |-> RtfNoError, value |-> <<>>]
\* mutant: an error ends the call with Ok and what was decoded up to there
RtfErrKeepsOutput(e) == [status |-> "Ok", error |-> RtfNoError, value |-> ret]
RtfErr(e)  == [status |-> "Err", error |-> e, value |-> <<>>]
RtfOk(v)   == [status |-> "Ok", error |-> RtfNoError, value |-> v]
RtfIoError == [RtfNoError EXCEPT !.kind = "Io"]

\* "MELA" and "LZFu" as the u32 read at offset 8
MELA == <<16716, 17741>>
LZFU == <<30022, 23116>>

\* mutant: the body cut to the raw_size the header declares
MelaBodyOfRawSize(c) ==
    SubSeq(c, 17, 16 + (IF read_u32_le(c, 4)[2] < Len(c) - 16
                        THEN read_u32_le(c, 4)[2] ELSE Len(c) - 16))

\* compressed[16..].to_vec()
MelaBody(c) == SubSeq(c, 17, Len(c))

RtfReturn(r) ==
    /\ rtf_pc' = "done"
    /\ rtf_result' = r

\* the header: the length check, the four u32 fields, the two magic checks,
\* and for LZFu the cursor, the dictionary and the output vector
RtfHeader ==
    /\ rtf_pc = "header"
    /\ IF Len(compressed) < 16
       THEN /\ RtfReturn(RtfErr([RtfNoError EXCEPT !.kind = "HeaderTooShort",
                                    !.expected = 16,
                                    !.obtained = Len(compressed)]))
            /\ UNCHANGED <<cursor, dict, ret>>
       ELSE IF read_u32_le(compressed, 8) = MELA
       THEN /\ RtfReturn(RtfOk(MelaBody(compressed)))
            /\ UNCHANGED <<cursor, dict, ret>>
       ELSE IF read_u32_le(compressed, 8) # LZFU
       THEN /\ RtfReturn(RtfErr([RtfNoError EXCEPT
                                    !.kind = "UnsupportedCompression",
                                    !.compression_type =
                                        read_u32_le(compressed, 8)]))
            /\ UNCHANGED <<cursor, dict, ret>>
       ELSE /\ cursor' = 0
            /\ dict' = DictNew
            /\ ret' = <<>>
            /\ rtf_pc' = "control"
            /\ UNCHANGED rtf_result
    /\ UNCHANGED <<compressed, control, bit_index, end_marker_seen,
                   literal_tokens, reference_tokens, notRtfVars>>

\* the bytes the cursor runs over: &compressed[16..]
Body == SubSeq(compressed, 17, Len(compressed))

\* while let Some(control) = cursor.read_u8_or_eof()? { ... } Ok(ret)
RtfReadControl ==
    /\ rtf_pc = "control"
    /\ IF ~CanRead(Body, cursor, 1)
       THEN /\ RtfReturn(RtfOk(ret))
            /\ UNCHANGED <<cursor, control, bit_index>>
       ELSE /\ control' = read_u8(Body, cursor)
            /\ cursor' = cursor + 1
            /\ bit_index' = 0
            /\ rtf_pc' = "token"
            /\ UNCHANGED rtf_result
    /\ UNCHANGED <<compressed, dict, ret, end_marker_seen, literal_tokens,
                   reference_tokens, notRtfVars>>

\* the end of one iteration of `for bit_index in 0..8`
NextBit ==
    /\ bit_index' = IF bit_index = 7 THEN 0 ELSE bit_index + 1
    /\ rtf_pc' = IF bit_index = 7 THEN "control" ELSE "token"

\* literal: let literal = cursor.read_u8()?; ret.push(literal);
\* dict.literal_read(literal)
RtfLiteral ==
    /\ rtf_pc = "token"
    /\ BitIsClear(control, bit_index)
    /\ IF ~CanRead(Body, cursor, 1)
       THEN /\ RtfReturn(RtfErr(RtfIoError))
            /\ UNCHANGED <<cursor, dict, ret, bit_index, literal_tokens>>
       ELSE /\ cursor' = cursor + 1
            /\ ret' = Append(ret, read_u8(Body, cursor))
            /\ dict' = literal_read(dict, read_u8(Body, cursor))
            /\ literal_tokens' = literal_tokens + 1
            /\ NextBit
            /\ UNCHANGED rtf_result
    /\ UNCHANGED <<compressed, control, end_marker_seen, reference_tokens,
                   notRtfVars>>

\* dictionary reference: let dict_ref = cursor.read_u16_be()?; length, offset;
\* if dict.is_decompression_complete(offset) { break; } (the break leaves the
\* `for`, and the `while let` goes on to the next control byte);
\* ret.extend_from_slice(&dict.reference_read(offset, length))
RtfReference ==
    /\ rtf_pc = "token"
    /\ ~BitIsClear(control, bit_index)
    /\ IF ~CanRead(Body, cursor, 2)
       THEN /\ RtfReturn(RtfErr(RtfIoError))
            /\ UNCHANGED <<cursor, dict, ret, bit_index, end_marker_seen,
                           reference_tokens>>
       ELSE LET dict_ref == read_u16_be(Body, cursor)
                offset   == RefOffset(dict_ref)
                read     == reference_read(dict, offset, RefLength(dict_ref))
            IN  /\ cursor' = cursor + 2
                /\ reference_tokens' = reference_tokens + 1
                /\ IF is_decompression_complete(dict, offset)
                   THEN /\ bit_index' = 0
                        /\ rtf_pc' = "control"
                        /\ end_marker_seen' = TRUE
                        /\ UNCHANGED <<dict, ret>>
                   ELSE /\ dict' = read.dict
                        /\ ret' = ret \o read.bytes
                        /\ NextBit
                        /\ UNCHANGED end_marker_seen
                /\ UNCHANGED rtf_result
    /\ UNCHANGED <<compressed, control, literal_tokens, notRtfVars>>

NextRtf ==
    \/ RtfHeader
    \/ RtfReadControl
    \/ RtfLiteral
    \/ RtfReference

(***************************************************************************)
(* tnef/mod.rs: decode_property and decode_properties.                     *)
(*                                                                         *)
(* A decoding step returns [status |-> "Ok", value, pos] with the position *)
(* after what it consumed, or [status |-> "Err", error]; a fixed-width     *)
(* number is kept as the bytes it was read from, in stream order (the      *)
(* from_le_bytes conversions are one-to-one), a String as its UTF-16 code  *)
(* units.  A PropTag is kept as its u16 code.                              *)
(***************************************************************************)
None == [some |-> FALSE]
Some(v) == [some |-> TRUE, value |-> v]

PropRunning == [status |-> "Running"]
PropOk(v) == [status |-> "Ok", value |-> v]
PropErr(e) == [status |-> "Err", error |-> e]
\* panic!(): the process is aborted, nothing is returned to the caller
PropPanic == [status |-> "Panic"]

PropIoError == [kind |-> "Io"]

Read(v, p) == [status |-> "Ok", value |-> v, pos |-> p]
Fail(e) == [status |-> "Err", error |-> e]

\* enum PropType, by its u16 code; every other code is Other(code)
PropTypeOf(code) ==
    CASE code = 0 -> "Unspecified"
      [] code = 1 -> "Null"
      [] code = 2 -> "Integer16"
      [] code = 3 -> "Integer32"
      [] code = 4 -> "Floating32"
      [] code = 5 -> "Floating64"
      [] code = 6 -> "Currency"
      [] code = 7 -> "FloatingTime"
      [] code = 10 -> "ErrorCode"
      [] code = 11 -> "Boolean"
      [] code = 13 -> "Object"
      [] code = 20 -> "Integer64"
      [] code = 30 -> "String8"
      [] code = 31 -> "String"
      [] code = 64 -> "Time"
      [] code = 72 -> "Guid"
      [] code = 258 -> "Binary"
      [] code = 4098 -> "MultipleInteger16"
      [] code = 4099 -> "MultipleInteger32"
      [] code = 4100 -> "MultipleFloating32"
      [] code = 4101 -> "MultipleFloating64"
      [] code = 4102 -> "MultipleCurrency"
      [] code = 4103 -> "MultipleFloatingTime"
      [] code = 4116 -> "MultipleInteger64"
      [] code = 4126 -> "MultipleString8"
      [] code = 4127 -> "MultipleString"
      [] code = 4160 -> "MultipleTime"
      [] code = 4168 -> "MultipleGuid"
      [] code = 4354 -> "MultipleBinary"
      [] OTHER -> "Other"

\* PropType: a named variant, or Other with the u16 it carries
Variant(name) == [variant |-> name]
Other(code) == [variant |-> "Other", code |-> code]

\* PropType::from_base_type, as #[from_to_other(base_type = u16)] derives it
\* from the enum: the variant with that discriminant, Other(code) when there
\* is none
from_base_type(code) ==
    IF PropTypeOf(code) = "Other" THEN Other(code)
    ELSE Variant(PropTypeOf(code))

\* the discriminant written beside each named variant of PropType
discriminant(name) ==
    CASE name = "Unspecified" -> 0
      [] name = "Null" -> 1
      [] name = "Integer16" -> 2
      [] name = "Integer32" -> 3
      [] name = "Floating32" -> 4
      [] name = "Floating64" -> 5
      [] name = "Currency" -> 6
      [] name = "FloatingTime" -> 7
      [] name = "ErrorCode" -> 10
      [] name = "Boolean" -> 11
      [] name = "Object" -> 13
      [] name = "Integer64" -> 20
      [] name = "String8" -> 30
      [] name = "String" -> 31
      [] name = "Time" -> 64
      [] name = "Guid" -> 72
      [] name = "Binary" -> 258
      [] name = "MultipleInteger16" -> 4098
      [] name = "MultipleInteger32" -> 4099
      [] name = "MultipleFloating32" -> 4100
      [] name = "MultipleFloating64" -> 4101
      [] name = "MultipleCurrency" -> 4102
      [] name = "MultipleFloatingTime" -> 4103
      [] name = "MultipleInteger64" -> 4116
      [] name = "MultipleString8" -> 4126
      [] name = "MultipleString" -> 4127
      [] name = "MultipleTime" -> 4160
      [] name = "MultipleGuid" -> 4168
      [] name = "MultipleBinary" -> 4354

\* mutant: Other gives up the code it carries
to_base_type_unspecified(v) ==
    IF v.variant = "Other" THEN 0 ELSE discriminant(v.variant)

\* PropType::to_base_type: the discriminant of a named variant, the u16
\* carried by Other
to_base_type(v) ==
    IF v.variant = "Other" THEN v.code ELSE discriminant(v.variant)

\* PartialEq of PropType, derive_compare = "as_int": equal codes
as_int_eq(v, w) == to_base_type(v) = to_base_type(w)

\* mutant: four bytes of padding after a length that is already aligned
pad_count_unaligned(bytes_read) == 4 - (bytes_read % 4)

\* pad_to_4: the number of padding bytes read after bytes_read bytes
pad_count(bytes_read) ==
    IF bytes_read % 4 = 0 THEN 0 ELSE 4 - (bytes_read % 4)

\* pad_to_4 of a length given as a u32: 2^16 is a multiple of 4
pad_count_u32(u) == pad_count(u[2])

\* a u32 count or length as a number; the buffers of the model are shorter
\* than 2^16 bytes, so every value of 2^16 or more runs out of input alike
UsizeOfU32(u) == IF u[1] > 0 THEN 65536 ELSE u[2]

\* Guid::from_le_bytes of 16 bytes
GuidFromLeBytes(bytes) ==
    [data1 |-> <<bytes[3] + 256 * bytes[4], bytes[1] + 256 * bytes[2]>>,
     data2 |-> bytes[5] + 256 * bytes[6],
     data3 |-> bytes[7] + 256 * bytes[8],
     data4 |-> SubSeq(bytes, 9, 16)]

\* read_exact of a [0u8; 16] and Guid::from_le_bytes
read_guid(b, p) ==
    IF ~CanRead(b, p, 16) THEN Fail(PropIoError)
    ELSE Read(GuidFromLeBytes(SubSeq(b, p + 1, p + 16)), p + 16)

\* a read_*_le of `width` bytes followed by pad_to_4(padded)
read_fixed(b, p, width, padded) ==
    IF ~CanRead(b, p, width + pad_count(padded)) THEN Fail(PropIoError)
    ELSE Read(SubSeq(b, p + 1, p + width), p + width + pad_count(padded))

\* n consecutive read_u16_le from position p
read_chars(b, p, n) == [i \in 1..n |-> read_u16_le(b, p + 2 * (i - 1))]

\* String::from_utf16 succeeds iff every surrogate is half of a pair
RECURSIVE from_utf16_ok(_, _)
from_utf16_ok(chars, i) ==
    IF i > Len(chars) THEN TRUE
    ELSE IF chars[i] \in 55296..56319
    THEN /\ i < Len(chars)
         /\ chars[i + 1] \in 56320..57343
         /\ from_utf16_ok(chars, i + 2)
    ELSE IF chars[i] \in 56320..57343 THEN FALSE
    ELSE from_utf16_ok(chars, i + 1)

\* encoding.decode_with_bom_removal(&bytes): the text is given by the
\* encoding and the bytes left once a leading byte order mark of that
\* encoding is dropped (UTF-8: EF BB BF; the single-byte encodings have none)
decode_with_bom_removal(enc, bytes) ==
    [encoding |-> enc,
     bytes |-> IF enc = "UTF-8" /\ Len(bytes) >= 3
                  /\ SubSeq(bytes, 1, 3) = <<239, 187, 191>>
               THEN SubSeq(bytes, 4, Len(bytes))
               ELSE bytes]

\* one element of Object, Binary or MultipleBinary: u32 byte count, the bytes,
\* pad_to_4(byte_count)
read_binary(b, p) ==
    IF ~CanRead(b, p, 4) THEN Fail(PropIoError)
    ELSE LET byte_count_u32 == read_u32_le(b, p)
             byte_count == UsizeOfU32(byte_count_u32)
             padding == pad_count_u32(byte_count_u32)
         IN  IF ~CanRead(b, p + 4, byte_count + padding)
             THEN Fail(PropIoError)
             ELSE Read(SubSeq(b, p + 5, p + 4 + byte_count),
                       p + 4 + byte_count + padding)

\* one element of String8 or MultipleString8: as read_binary, the bytes decoded
read_string8(b, p, enc) ==
    LET r == read_binary(b, p)
    IN  IF r.status = "Err" THEN r
        ELSE Read(decode_with_bom_removal(enc, r.value), r.pos)

\* mutant: an odd byte count rounded down to whole code units
read_string_rounding(b, p) ==
    IF ~CanRead(b, p, 4) THEN Fail(PropIoError)
    ELSE LET char_count == UsizeOfU32(read_u32_le(b, p)) \div 2
             chars == read_chars(b, p + 4, char_count)
             after == p + 4 + 2 * char_count + pad_count(char_count * 2)
         IN  IF ~CanRead(b, p, after - p) THEN Fail(PropIoError)
             ELSE IF ~from_utf16_ok(chars, 1)
             THEN Fail([kind |-> "InvalidString", obtained |-> chars])
             ELSE Read(chars, after)

\* one element of String or MultipleString: u32 byte count (odd: error), the
\* code units, String::from_utf16, pad_to_4(char_count * 2)
read_string(b, p) ==
    IF ~CanRead(b, p, 4) THEN Fail(PropIoError)
    ELSE LET byte_count_u32 == read_u32_le(b, p)
             char_count == UsizeOfU32(byte_count_u32) \div 2
             chars == read_chars(b, p + 4, char_count)
         IN  IF byte_count_u32[2] % 2 # 0
             THEN Fail([kind |-> "OddStringLength",
                        byte_length |-> byte_count_u32])
             ELSE IF ~CanRead(b, p + 4, 2 * char_count) THEN Fail(PropIoError)
             ELSE IF ~from_utf16_ok(chars, 1)
             THEN Fail([kind |-> "InvalidString", obtained |-> chars])
             ELSE IF ~CanRead(b, p + 4 + 2 * char_count,
                              pad_count(char_count * 2))
             THEN Fail(PropIoError)
             ELSE Read(chars, p + 4 + 2 * char_count + pad_count(char_count * 2))

\* the named-property part of decode_property: guid, id type, then a numeric
\* id, or a name as u32 byte length, length / 2 code units, pad_to_4(length)
\* and String::from_utf16
decode_id(b, p) ==
    LET g == read_guid(b, p)
    IN  IF g.status = "Err" THEN g
        ELSE IF ~CanRead(b, g.pos, 4) THEN Fail(PropIoError)
        ELSE LET id_type_u32 == read_u32_le(b, g.pos)
                 q == g.pos + 4
             IN  IF id_type_u32 = <<0, 0>>
                 THEN IF ~CanRead(b, q, 4) THEN Fail(PropIoError)
                      ELSE Read(<<g.value, [kind |-> "Number",
                                            value |-> read_u32_le(b, q)]>>,
                                q + 4)
                 ELSE IF id_type_u32 = <<0, 1>>
                 THEN IF ~CanRead(b, q, 4) THEN Fail(PropIoError)
                      ELSE LET length_bytes == read_u32_le(b, q)
                               length_chars == UsizeOfU32(length_bytes) \div 2
                               padding == pad_count_u32(length_bytes)
                               chars == read_chars(b, q + 4, length_chars)
                           IN  IF ~CanRead(b, q + 4, 2 * length_chars + padding)
                               THEN Fail(PropIoError)
                               ELSE IF ~from_utf16_ok(chars, 1)
                               THEN Fail([kind |-> "InvalidStringId",
                                          obtained |-> chars])
                               ELSE Read(<<g.value, [kind |-> "String",
                                                     value |-> chars]>>,
                                         q + 4 + 2 * length_chars + padding)
                 ELSE Fail([kind |-> "InvalidIdType", obtained |-> id_type_u32])

\* mutant: the tag 0x8000 itself taken for an unnamed property
IsAboveNamedBase(tag) == tag > 32768

\* prop_tag_u16 >= 0x8000: a named property
IsNamedProperty(tag) == tag >= 32768

\* the types read with one read_*_le and a pad_to_4, single or in a counted
\* list: the bytes of one value
ValueWidth(t) ==
    CASE t \in {"Integer16", "MultipleInteger16"} -> 2
      [] t \in {"Integer32", "Floating32", "MultipleInteger32",
                "MultipleFloating32"} -> 4
      [] OTHER -> 8

\* the argument given to pad_to_4 after one value of the type
ValuePadded(t) ==
    CASE t \in {"MultipleInteger64", "MultipleTime"} -> 4
      [] OTHER -> ValueWidth(t)

SingleFixedTypes ==
    {"Integer16", "Integer32", "Floating32", "Floating64", "Currency",
     "FloatingTime", "ErrorCode", "Integer64", "Time"}

MultipleFixedTypes ==
    {"MultipleInteger16", "MultipleInteger32", "MultipleFloating32",
     "MultipleFloating64", "MultipleCurrency", "MultipleFloatingTime",
     "MultipleInteger64", "MultipleTime"}

\* mutant: Object left out of the types that reject a count other than 1
SingleCountedTypesButObject == {"String8", "String", "Binary"}

\* the types whose arm reads a value count and rejects a count other than 1
SingleCountedTypes == {"Object", "String8", "String", "Binary"}

\* the body of the `for _ in 0..value_count` loop of a type
read_element(t, b, p, enc) ==
    CASE t \in MultipleFixedTypes -> read_fixed(b, p, ValueWidth(t), ValuePadded(t))
      [] t = "MultipleGuid" -> read_guid(b, p)
      [] t \in {"String8", "MultipleString8"} -> read_string8(b, p, enc)
      [] t \in {"String", "MultipleString"} -> read_string(b, p)
      [] t \in {"Object", "Binary", "MultipleBinary"} -> read_binary(b, p)

\* `for _ in 0..n`: n elements one after the other, the first failure returned
RECURSIVE read_elements(_, _, _, _, _, _)
read_elements(t, b, p, n, enc, vals) ==
    IF n = 0 THEN Read(vals, p)
    ELSE LET r == read_element(t, b, p, enc)
         IN  IF r.status = "Err" THEN r
             ELSE read_elements(t, b, r.pos, n - 1, enc, Append(vals, r.value))

PropValue(variant, v) == [variant |-> variant, value |-> v]

\* mutant: the String arm builds the String8 variant
decode_property_variant_string8(t) ==
    CASE t = "Unspecified" -> "Unspecified"
      [] t = "Null" -> "Null"
      [] t = "Integer16" -> "Integer16"
      [] t = "Integer32" -> "Integer32"
      [] t = "Floating32" -> "Floating32"
      [] t = "Floating64" -> "Floating64"
      [] t = "Currency" -> "Currency"
      [] t = "FloatingTime" -> "FloatingTime"
      [] t = "ErrorCode" -> "ErrorCode"
      [] t = "Boolean" -> "Boolean"
      [] t = "Object" -> "Object"
      [] t = "Integer64" -> "Integer64"
      [] t = "Time" -> "Time"
      [] t = "Guid" -> "Guid"
      [] t = "MultipleInteger16" -> "MultipleInteger16"
      [] t = "MultipleInteger32" -> "MultipleInteger32"
      [] t = "MultipleFloating32" -> "MultipleFloating32"
      [] t = "MultipleFloating64" -> "MultipleFloating64"
      [] t = "MultipleCurrency" -> "MultipleCurrency"
      [] t = "MultipleFloatingTime" -> "MultipleFloatingTime"
      [] t = "MultipleInteger64" -> "MultipleInteger64"
      [] t = "String8" -> "String8"
      [] t = "MultipleString8" -> "MultipleString8"
      [] t = "String" -> "String8"
      [] t = "MultipleString" -> "MultipleString"
      [] t = "MultipleTime" -> "MultipleTime"
      [] t = "MultipleGuid" -> "MultipleGuid"
      [] t = "Binary" -> "Binary"
      [] t = "MultipleBinary" -> "MultipleBinary"

\* the PropValue variant each arm of `match prop_type` builds
decode_property_variant(t) ==
    CASE t = "Unspecified" -> "Unspecified"
      [] t = "Null" -> "Null"
      [] t = "Integer16" -> "Integer16"
      [] t = "Integer32" -> "Integer32"
      [] t = "Floating32" -> "Floating32"
      [] t = "Floating64" -> "Floating64"
      [] t = "Currency" -> "Currency"
      [] t = "FloatingTime" -> "FloatingTime"
      [] t = "ErrorCode" -> "ErrorCode"
      [] t = "Boolean" -> "Boolean"
      [] t = "Object" -> "Object"
      [] t = "Integer64" -> "Integer64"
      [] t = "Time" -> "Time"
      [] t = "Guid" -> "Guid"
      [] t = "MultipleInteger16" -> "MultipleInteger16"
      [] t = "MultipleInteger32" -> "MultipleInteger32"
      [] t = "MultipleFloating32" -> "MultipleFloating32"
      [] t = "MultipleFloating64" -> "MultipleFloating64"
      [] t = "MultipleCurrency" -> "MultipleCurrency"
      [] t = "MultipleFloatingTime" -> "MultipleFloatingTime"
      [] t = "MultipleInteger64" -> "MultipleInteger64"
      [] t = "String8" -> "String8"
      [] t = "MultipleString8" -> "MultipleString8"
      [] t = "String" -> "String"
      [] t = "MultipleString" -> "MultipleString"
      [] t = "MultipleTime" -> "MultipleTime"
      [] t = "MultipleGuid" -> "MultipleGuid"
      [] t = "Binary" -> "Binary"
      [] t = "MultipleBinary" -> "MultipleBinary"

\* mutant: every byte but 0x00 taken for true
read_boolean_nonzero(b, p) ==
    IF ~CanRead(b, p, 1 + pad_count(1)) THEN Fail(PropIoError)
    ELSE Read(read_u8(b, p) # 0, p + 1 + pad_count(1))

\* the Boolean arm: one byte, 0x00 or 0x01, then pad_to_4(1)
read_boolean(b, p) ==
    IF ~CanRead(b, p, 1) THEN Fail(PropIoError)
    ELSE IF read_u8(b, p) \notin {0, 1}
    THEN Fail([kind |-> "InvalidBoolean", obtained |-> read_u8(b, p)])
    ELSE IF ~CanRead(b, p + 1, pad_count(1)) THEN Fail(PropIoError)
    ELSE Read(read_u8(b, p) = 1, p + 1 + pad_count(1))

\* the arms that begin with a value count
decode_counted(t, b, p, enc) ==
    IF ~CanRead(b, p, 4) THEN Fail(PropIoError)
    ELSE LET value_count == read_u32_le(b, p)
         IN  IF t \in SingleCountedTypes /\ value_count # <<0, 1>>
             THEN Fail([kind |-> "MultipleValuesSingleType", prop_type |-> t,
                        count |-> value_count])
             ELSE LET r == read_elements(t, b, p + 4, UsizeOfU32(value_count),
                                         enc, <<>>)
                  IN  IF r.status = "Err" THEN r
                      ELSE IF t \in SingleCountedTypes
                      THEN Read(PropValue(decode_property_variant(t), r.value[1]), r.pos)
                      ELSE Read(PropValue(decode_property_variant(t), r.value),
                                r.pos)

\* `let prop_value = match prop_type { ... }`
decode_value(b, p, code, enc) ==
    LET t == PropTypeOf(code)
    IN  CASE t \in {"Unspecified", "Null"} ->
                Read([variant |-> decode_property_variant(t)], p)
          [] t \in SingleFixedTypes ->
                LET r == read_fixed(b, p, ValueWidth(t), ValuePadded(t))
                IN  IF r.status = "Err" THEN r
                    ELSE Read(PropValue(decode_property_variant(t), r.value),
                              r.pos)
          [] t = "Boolean" ->
                LET r == read_boolean(b, p)
                IN  IF r.status = "Err" THEN r
                    ELSE Read(PropValue(decode_property_variant(t), r.value),
                              r.pos)
          [] t = "Guid" ->
                LET r == read_guid(b, p)
                IN  IF r.status = "Err" THEN r
                    ELSE Read(PropValue(decode_property_variant(t), r.value),
                              r.pos)
          [] t = "Other" ->
                IF ~CanRead(b, p, 128) THEN Fail(PropIoError)
                ELSE [status |-> "Panic"]
          [] OTHER -> decode_counted(t, b, p, enc)

Property(tag, id, value) == [tag |-> tag, id |-> id, value |-> value]

PropReturn(r) ==
    /\ prop_pc' = "done"
    /\ prop_result' = r

\* decode_properties: let prop_count = reader.read_u32_le()?
PropReadCount ==
    /\ prop_pc = "count"
    /\ IF ~CanRead(buf, pos, 4)
       THEN /\ PropReturn(PropErr(PropIoError))
            /\ UNCHANGED <<pos, prop_count>>
       ELSE /\ prop_count' = UsizeOfU32(read_u32_le(buf, pos))
            /\ pos' = pos + 4
            /\ prop_pc' = "next"
            /\ UNCHANGED prop_result
    /\ UNCHANGED <<buf, encoding, properties, prop_type_u16, prop_tag_u16,
                   prop_full_id, record_start, value_start, value_end,
                   notPropVars>>

\* decode_properties: `for _ in 0..prop_count`, then Ok(properties)
PropNext ==
    /\ prop_pc = "next"
    /\ IF Len(properties) < prop_count
       THEN /\ prop_pc' = "type"
            /\ UNCHANGED prop_result
       ELSE PropReturn(PropOk(properties))
    /\ UNCHANGED <<buf, pos, encoding, prop_count, properties, prop_type_u16,
                   prop_tag_u16, prop_full_id, record_start, value_start, value_end,
                   notPropVars>>

\* decode_property: let prop_type_u16 = reader.read_u16_le()?
PropReadType ==
    /\ prop_pc = "type"
    /\ IF ~CanRead(buf, pos, 2)
       THEN /\ PropReturn(PropErr(PropIoError))
            /\ UNCHANGED <<pos, prop_type_u16, record_start>>
       ELSE /\ prop_type_u16' = read_u16_le(buf, pos)
            /\ record_start' = Append(record_start, pos)
            /\ pos' = pos + 2
            /\ prop_pc' = "tag"
            /\ UNCHANGED prop_result
    /\ UNCHANGED <<buf, encoding, prop_count, properties, prop_tag_u16,
                   prop_full_id, value_start, value_end, notPropVars>>

\* decode_property: let prop_tag_u16 = reader.read_u16_le()?
PropReadTag ==
    /\ prop_pc = "tag"
    /\ IF ~CanRead(buf, pos, 2)
       THEN /\ PropReturn(PropErr(PropIoError))
            /\ UNCHANGED <<pos, prop_tag_u16>>
       ELSE /\ prop_tag_u16' = read_u16_le(buf, pos)
            /\ pos' = pos + 2
            /\ prop_pc' = "id"
            /\ UNCHANGED prop_result
    /\ UNCHANGED <<buf, encoding, prop_count, properties, prop_type_u16,
                   prop_full_id, record_start, value_start, value_end,
                   notPropVars>>

\* decode_property: let prop_full_id = if prop_tag_u16 >= 0x8000 { ... } else { None }
PropReadId ==
    /\ prop_pc = "id"
    /\ IF IsNamedProperty(prop_tag_u16)
       THEN LET r == decode_id(buf, pos)
            IN  IF r.status = "Err"
                THEN /\ PropReturn(PropErr(r.error))
                     /\ UNCHANGED <<pos, prop_full_id>>
                ELSE /\ prop_full_id' = Some(r.value)
                     /\ pos' = r.pos
                     /\ prop_pc' = "value"
                     /\ UNCHANGED prop_result
       ELSE /\ prop_full_id' = None
            /\ prop_pc' = "value"
            /\ UNCHANGED <<pos, prop_result>>
    /\ UNCHANGED <<buf, encoding, prop_count, properties, prop_type_u16,
                   prop_tag_u16, record_start, value_start, value_end,
                   notPropVars>>

\* decode_property: the match on prop_type and Ok(Property { .. }), then
\* properties.push(property) in decode_properties
PropReadValue ==
    /\ prop_pc = "value"
    /\ LET r == decode_value(buf, pos, prop_type_u16, encoding)
       IN  CASE r.status = "Ok" ->
                    /\ properties' = Append(properties,
                          Property(prop_tag_u16, prop_full_id, r.value))
                    /\ pos' = r.pos
                    /\ value_end' = Append(value_end, r.pos)
                    /\ prop_pc' = "next"
                    /\ UNCHANGED prop_result
             [] r.status = "Err" ->
                    /\ PropReturn(PropErr(r.error))
                    /\ UNCHANGED <<pos, properties, value_end>>
             [] r.status = "Panic" ->
                    /\ prop_pc' = "panicked"
                    /\ prop_result' = PropPanic
                    /\ pos' = pos + 128
                    /\ UNCHANGED <<properties, value_end>>
    /\ value_start' = Append(value_start, pos)
    /\ UNCHANGED <<buf, encoding, prop_count, prop_type_u16, prop_tag_u16,
                   prop_full_id, record_start, notPropVars>>

NextProp ==
    \/ PropReadCount
    \/ PropNext
    \/ PropReadType
    \/ PropReadTag
    \/ PropReadId
    \/ PropReadValue

(***************************************************************************)
(* main.rs, run(): the loop over the attributes of the TnefFile that       *)
(* read_tnef returned.  decode_properties is the decoder above, run on a   *)
(* cursor over the data of the attribute: buf and pos are then that cursor.*)
(***************************************************************************)
\* TnefAttributeId, by the code read
OemCodepage == <<6, 36871>>
MsgProps == <<6, 36867>>
Attachment == <<6, 36869>>
AttachData == <<6, 32783>>

\* PropTag, by the code read
TagAttachDataBinary == 14081
TagTransportMessageHeaders == 125
TagBodyHtml == 4115

\* mutant: the codepage taken as big-endian
codepage_id_be(data) == 256 * data[1] + data[2]

\* ((attribute.data[0] as u16) << 0) | ((attribute.data[1] as u16) << 8)
codepage_id(data) == data[1] + 256 * data[2]

\* codepage::to_encoding: the encoding of a Windows code page, None for a
\* code page it does not know
to_encoding(codepage) ==
    CASE codepage = 1250 -> Some("windows-1250")
      [] codepage = 1252 -> Some("windows-1252")
      [] codepage = 65001 -> Some("UTF-8")
      [] OTHER -> None

\* msg_headers.trim_end_matches('\0')
RECURSIVE trim_end_nul(_)
trim_end_nul(bytes) ==
    IF bytes # <<>> /\ bytes[Len(bytes)] = 0
    THEN trim_end_nul(SubSeq(bytes, 1, Len(bytes) - 1))
    ELSE bytes

\* `for prop in &props`: what the properties from index i on do to the
\* headers, the body and attachment.bin; &val[16..] panics on a shorter val
RECURSIVE gather(_, _, _)
gather(props, i, found) ==
    IF i > Len(props) THEN found
    ELSE LET prop == props[i]
         IN  IF prop.tag = TagAttachDataBinary /\ prop.value.variant = "Object"
             THEN IF Len(prop.value.value) < 16
                  THEN [found EXCEPT !.panicked = TRUE]
                  ELSE gather(props, i + 1,
                         [found EXCEPT !.attachment_bin =
                            Some(SubSeq(prop.value.value, 17,
                                        Len(prop.value.value)))])
             ELSE IF prop.tag = TagTransportMessageHeaders
                     /\ prop.value.variant = "String8"
             THEN gather(props, i + 1,
                    [found EXCEPT !.headers =
                        Some([prop.value.value EXCEPT
                                !.bytes = trim_end_nul(@)])])
             ELSE IF prop.tag = TagBodyHtml /\ prop.value.variant = "Binary"
             THEN gather(props, i + 1,
                         [found EXCEPT !.body = Some(prop.value.value)])
             ELSE gather(props, i + 1, found)

\* the attribute the loop is at
attribute == attributes[attribute_index + 1]

InLoop == run_pc = "attributes" /\ attribute_index < Len(attributes)

\* if attribute.id == OemCodepage && attribute.data.len() >= 2
LoopOemCodepage ==
    /\ InLoop
    /\ attribute.id = OemCodepage /\ Len(attribute.data) >= 2
    /\ LET new_encoder == to_encoding(codepage_id(attribute.data))
       IN  encoder' = IF new_encoder.some THEN new_encoder.value ELSE encoder
    /\ attribute_index' = attribute_index + 1
    /\ UNCHANGED <<buf, pos, runVars, tnefVars, rtfVars, propVars, cfbVars, convVars,
                   headers, body, attachment_bin, email_eml, decode_calls>>

\* else if attribute.id == MsgProps || attribute.id == Attachment: the call
\* decode_properties(Cursor::new(&attribute.data), encoder)
LoopDecodeProperties ==
    /\ InLoop
    /\ attribute.id \in {MsgProps, Attachment}
    /\ run_pc' = "in decode_properties"
    /\ decode_calls' = Append(decode_calls,
                              [index |-> attribute_index + 1,
                               encoding |-> encoder])
    /\ buf' = attribute.data
    /\ pos' = 0
    /\ encoding' = encoder
    /\ prop_pc' = "count"
    /\ prop_count' = 0
    /\ properties' = <<>>
    /\ prop_type_u16' = 0
    /\ prop_tag_u16' = 0
    /\ prop_full_id' = None
    /\ prop_result' = PropRunning
    /\ record_start' = <<>>
    /\ value_start' = <<>>
    /\ value_end' = <<>>
    /\ UNCHANGED <<magic, callee, callee_pos, tnefVars, rtfVars, cfbVars, convVars,
                   encoder, attribute_index, headers, body, attachment_bin,
                   email_eml>>

\* decode_properties has returned: Ok(props) is gone through, Err(e) is
\* printed and the loop continues; a panic in the decoder or in the slicing
\* of an attachment object ends the process
LoopDecoded ==
    /\ run_pc = "in decode_properties"
    /\ prop_pc \in {"done", "panicked"}
    /\ prop_pc' = "idle"
    /\ LET found == gather(IF prop_result.status = "Ok" THEN prop_result.value
                           ELSE <<>>, 1,
                           [headers |-> headers, body |-> body,
                            attachment_bin |-> attachment_bin,
                            panicked |-> FALSE])
       IN  IF prop_result = PropPanic \/ found.panicked
           THEN /\ run_pc' = "panicked"
                /\ UNCHANGED <<attribute_index, headers, body, attachment_bin>>
           ELSE /\ run_pc' = "attributes"
                /\ attribute_index' = attribute_index + 1
                /\ headers' = found.headers
                /\ body' = found.body
                /\ attachment_bin' = found.attachment_bin
    /\ UNCHANGED <<buf, pos, magic, callee, callee_pos, tnefVars, rtfVars,
                   cfbVars, convVars, encoding, prop_count, properties, prop_type_u16,
                   prop_tag_u16, prop_full_id, prop_result, record_start,
                   value_start, value_end, encoder, email_eml, decode_calls>>

\* else if attribute.id == AttachData: attachment.bin is written
LoopAttachData ==
    /\ InLoop
    /\ attribute.id = AttachData
    /\ attachment_bin' = Some(attribute.data)
    /\ attribute_index' = attribute_index + 1
    /\ UNCHANGED <<buf, pos, runVars, tnefVars, rtfVars, propVars, cfbVars, convVars,
                   encoder, headers, body, email_eml, decode_calls>>

\* else: the attribute is dumped; so is an OemCodepage of less than 2 bytes
LoopHexdump ==
    /\ InLoop
    /\ ~(attribute.id = OemCodepage /\ Len(attribute.data) >= 2)
    /\ attribute.id \notin {MsgProps, Attachment, AttachData}
    /\ attribute_index' = attribute_index + 1
    /\ UNCHANGED <<buf, pos, runVars, tnefVars, rtfVars, propVars, cfbVars, convVars,
                   encoder, headers, body, attachment_bin, email_eml,
                   decode_calls>>

\* after the loop: email.eml is written when headers and body were found,
\* the headers as text and then the body; run returns 0
LoopEnd ==
    /\ run_pc = "attributes"
    /\ attribute_index = Len(attributes)
    /\ run_pc' = "returned"
    /\ email_eml' = IF headers.some /\ body.some
                    THEN Some(<<headers.value, body.value>>)
                    ELSE email_eml
    /\ UNCHANGED <<buf, pos, magic, callee, callee_pos, tnefVars, rtfVars,
                   propVars, cfbVars, convVars, encoder, attribute_index, headers, body,
                   attachment_bin, decode_calls>>

NextLoop ==
    \/ LoopOemCodepage
    \/ LoopDecodeProperties
    \/ NextProp
    \/ LoopDecoded
    \/ LoopAttachData
    \/ LoopHexdump
    \/ LoopEnd

(***************************************************************************)
(* The CFB message reader (cfb_msg.rs): read_cfb_msg and the               *)
(* read_properties it calls on the root storage and on each recipient and  *)
(* attachment storage.  The compound file is the function `msg` from the   *)
(* paths of its streams to their bytes; a path outside its domain cannot   *)
(* be opened.  A path is kept as the tuple of the parts format! joins, the *)
(* hexadecimal renderings being one-to-one.                                *)
(***************************************************************************)
CfbRunning == [status |-> "Running"]
CfbOk(v) == [status |-> "Ok", value |-> v]
CfbErr(e) == [status |-> "Err", error |-> e]

\* read_cfb_msg: the path_prefix "" of the root storage
RootPrefix == <<"", 0>>
\* format!("/__recip_version1.0_#{:08X}", recipient_index)
RecipientPath(recipient_index) == <<"/__recip_version1.0_#", recipient_index>>
\* format!("/__attach_version1.0_#{:08X}", attachment_index)
AttachmentPath(attachment_index) == <<"/__attach_version1.0_#", attachment_index>>
\* format!("{}/__properties_version1.0", path_prefix)
PropPath(prefix) == <<prefix, "/__properties_version1.0">>
\* format!("{}/__substg1.0_{:04X}{:04X}", path_prefix, tag_u16, type_u16)
ValuePath(prefix, tag_u16, type_u16) ==
    <<prefix, "/__substg1.0_", tag_u16, type_u16>>
\* format!("{}/__substg1.0_{:04X}{:04X}-{:08X}", ..., value_index)
ElementPath(prefix, tag_u16, type_u16, value_index) ==
    <<prefix, "/__substg1.0_", tag_u16, type_u16, value_index>>

\* msg.open_stream(path) followed by read_to_end: the bytes, or None when
\* the stream cannot be opened
open_stream(m, path) == IF path \in DOMAIN m THEN Some(m[path]) ELSE None

\* value_buf.chunks(size) of a buffer whose length is a multiple of size
chunks(bytes, size) ==
    [i \in 1..(Len(bytes) \div size) |->
        SubSeq(bytes, (i - 1) * size + 1, i * size)]

\* String::from_utf8 succeeds iff the bytes are well-formed UTF-8
RECURSIVE from_utf8_ok(_, _)
from_utf8_ok(bytes, i) ==
    LET n == Len(bytes)
        cont(k, lo, hi) == k =< n /\ bytes[k] \in lo..hi
    IN  IF i > n THEN TRUE
        ELSE CASE bytes[i] < 128 -> from_utf8_ok(bytes, i + 1)
               [] bytes[i] \in 194..223 ->
                    cont(i + 1, 128, 191) /\ from_utf8_ok(bytes, i + 2)
               [] bytes[i] = 224 ->
                    /\ cont(i + 1, 160, 191) /\ cont(i + 2, 128, 191)
                    /\ from_utf8_ok(bytes, i + 3)
               [] bytes[i] \in (225..236) \cup {238, 239} ->
                    /\ cont(i + 1, 128, 191) /\ cont(i + 2, 128, 191)
                    /\ from_utf8_ok(bytes, i + 3)
               [] bytes[i] = 237 ->
                    /\ cont(i + 1, 128, 159) /\ cont(i + 2, 128, 191)
                    /\ from_utf8_ok(bytes, i + 3)
               [] bytes[i] = 240 ->
                    /\ cont(i + 1, 144, 191) /\ cont(i + 2, 128, 191)
                    /\ cont(i + 3, 128, 191) /\ from_utf8_ok(bytes, i + 4)
               [] bytes[i] \in 241..243 ->
                    /\ cont(i + 1, 128, 191) /\ cont(i + 2, 128, 191)
                    /\ cont(i + 3, 128, 191) /\ from_utf8_ok(bytes, i + 4)
               [] bytes[i] = 244 ->
                    /\ cont(i + 1, 128, 143) /\ cont(i + 2, 128, 191)
                    /\ cont(i + 3, 128, 191) /\ from_utf8_ok(bytes, i + 4)
               [] OTHER -> FALSE

\* the types whose value is stored in the 8 bytes after the flags
InlineTypes ==
    {"Integer16", "Integer32", "Floating32", "Floating64", "Boolean",
     "Currency", "FloatingTime", "Time", "Integer64", "ErrorCode"}

\* the types whose value is stored in one stream of its own
ExternalSingleTypes == {"String", "Binary", "String8", "Guid", "Object"}

\* the types whose values are stored in one stream, one chunk a value
ExternalFixedTypes ==
    {"MultipleInteger16", "MultipleInteger32", "MultipleFloating32",
     "MultipleFloating64", "MultipleCurrency", "MultipleFloatingTime",
     "MultipleTime", "MultipleGuid", "MultipleInteger64"}

\* the PropValue variant each arm of read_properties builds
read_properties_variant(t) ==
    CASE t = "Integer16" -> "Integer16"
      [] t = "Integer32" -> "Integer32"
      [] t = "Floating32" -> "Floating32"
      [] t = "Floating64" -> "Floating64"
      [] t = "Boolean" -> "Boolean"
      [] t = "Currency" -> "Currency"
      [] t = "FloatingTime" -> "FloatingTime"
      [] t = "Time" -> "Time"
      [] t = "Integer64" -> "Integer64"
      [] t = "ErrorCode" -> "ErrorCode"
      [] t = "String" -> "String"
      [] t = "Binary" -> "Binary"
      [] t = "String8" -> "String8"
      [] t = "Guid" -> "Guid"
      [] t = "Object" -> "Object"
      [] t = "MultipleInteger16" -> "MultipleInteger16"
      [] t = "MultipleInteger32" -> "MultipleInteger32"
      [] t = "MultipleFloating32" -> "MultipleFloating32"
      [] t = "MultipleFloating64" -> "MultipleFloating64"
      [] t = "MultipleCurrency" -> "MultipleCurrency"
      [] t = "MultipleFloatingTime" -> "MultipleFloatingTime"
      [] t = "MultipleTime" -> "MultipleTime"
      [] t = "MultipleGuid" -> "MultipleGuid"
      [] t = "MultipleInteger64" -> "MultipleInteger64"
      [] t = "MultipleBinary" -> "MultipleBinary"
      [] t = "MultipleString" -> "MultipleString"
      [] t = "MultipleString8" -> "MultipleString8"

\* mutant: a Boolean is true only when its first byte is 1
inline_value_one_is_true(t, bytes) ==
    CASE t = "Integer16" -> SubSeq(bytes, 1, 2)
      [] t \in {"Integer32", "Floating32", "ErrorCode"} -> SubSeq(bytes, 1, 4)
      [] t = "Boolean" -> bytes[1] = 1
      [] OTHER -> bytes

\* the inner match of the inline arm on the 8 bytes read
inline_value(t, bytes) ==
    CASE t = "Integer16" -> SubSeq(bytes, 1, 2)
      [] t \in {"Integer32", "Floating32", "ErrorCode"} -> SubSeq(bytes, 1, 4)
      [] t = "Boolean" -> bytes[1] # 0
      [] OTHER -> bytes

\* the inner match of the single external arm on the bytes of the value
\* stream: the value, or None where the code skips the property
external_value(t, value_buf) ==
    CASE t = "String" ->
            IF Len(value_buf) % 2 # 0 THEN None
            ELSE LET words == read_chars(value_buf, 0, Len(value_buf) \div 2)
                 IN  IF from_utf16_ok(words, 1) THEN Some(words) ELSE None
      [] t = "String8" ->
            IF from_utf8_ok(value_buf, 1) THEN Some(value_buf) ELSE None
      [] t = "Guid" ->
            IF Len(value_buf) # 16 THEN None
            ELSE Some(GuidFromLeBytes(value_buf))
      [] t \in {"Binary", "Object"} -> Some(value_buf)

\* match_multiple_fixed_property_type!: the chunk size of each type
chunk_size(t) ==
    CASE t = "MultipleInteger16" -> 2
      [] t \in {"MultipleInteger32", "MultipleFloating32"} -> 4
      [] t = "MultipleGuid" -> 16
      [] OTHER -> 8

\* match_multiple_fixed_property_type!: the values, or None where the code
\* skips the property
multiple_fixed_value(t, value_buf) ==
    IF Len(value_buf) % chunk_size(t) # 0 THEN None
    ELSE LET slices == chunks(value_buf, chunk_size(t))
         IN  IF t = "MultipleGuid"
             THEN Some([i \in 1..Len(slices) |-> GuidFromLeBytes(slices[i])])
             ELSE Some(slices)

\* the size of one entry of the lengths stream
lengths_entry_size(t) == IF t = "MultipleBinary" THEN 8 ELSE 4

\* `for value_index in 0..value_count`: the streams that can be opened, in
\* the order of their indices
RECURSIVE read_value_bufs(_, _, _, _, _, _, _)
read_value_bufs(m, prefix, tag_u16, type_u16, value_index, value_count, value_bufs) ==
    IF value_index >= value_count THEN value_bufs
    ELSE LET value_stream == open_stream(m, ElementPath(prefix, tag_u16,
                                                        type_u16, value_index))
         IN  read_value_bufs(m, prefix, tag_u16, type_u16, value_index + 1,
                             value_count,
                             IF value_stream.some
                             THEN Append(value_bufs, value_stream.value)
                             ELSE value_bufs)

\* mutant: a value whose stream is ill-formed ends the loop over the values
RECURSIVE decode_value_bufs_until(_, _, _, _)
decode_value_bufs_until(t, value_bufs, i, values) ==
    IF i > Len(value_bufs) THEN values
    ELSE LET v == external_value(IF t = "MultipleString" THEN "String"
                                 ELSE IF t = "MultipleString8" THEN "String8"
                                 ELSE "Binary", value_bufs[i])
         IN  IF v.some
             THEN decode_value_bufs_until(t, value_bufs, i + 1,
                                          Append(values, v.value))
             ELSE values

\* `for (value_index, value_buf) in value_bufs.into_iter().enumerate()`: the
\* values that decode, in order; MultipleBinary keeps every buffer
RECURSIVE decode_value_bufs(_, _, _, _)
decode_value_bufs(t, value_bufs, i, values) ==
    IF i > Len(value_bufs) THEN values
    ELSE LET v == external_value(IF t = "MultipleString" THEN "String"
                                 ELSE IF t = "MultipleString8" THEN "String8"
                                 ELSE "Binary", value_bufs[i])
         IN  decode_value_bufs(t, value_bufs, i + 1,
                               IF v.some THEN Append(values, v.value)
                               ELSE values)

\* the arm of the types stored in several streams: the values, or None where
\* the code skips the property
multiple_streams_value(m, prefix, tag_u16, type_u16) ==
    LET t == PropTypeOf(type_u16)
        lengths_stream == open_stream(m, ValuePath(prefix, tag_u16, type_u16))
    IN  IF ~lengths_stream.some THEN None
        ELSE IF Len(lengths_stream.value) % lengths_entry_size(t) # 0 THEN None
        ELSE LET value_count == Len(lengths_stream.value) \div lengths_entry_size(t)
                 value_bufs == read_value_bufs(m, prefix, tag_u16, type_u16,
                                               0, value_count, <<>>)
             IN  Some(decode_value_bufs(t, value_bufs, 1, <<>>))

\* struct Property of cfb_msg.rs
CfbProperty(t, tag, flags, value) ==
    [property_type |-> t, tag |-> tag, flags |-> flags, value |-> value]

Push(property, p) == [outcome |-> "push", property |-> property, pos |-> p]
\* mutant: a property that cannot be read ends the call with an error
SkipIsError(p) == [outcome |-> "return", error |-> PropIoError]
Skip(p) == [outcome |-> "continue", pos |-> p]
Return(e) == [outcome |-> "return", error |-> e]

\* mutant: Null left out of the types read_properties rejects
InvalidTypesButNull == {"Unspecified", "Other"}

\* the types read_properties rejects
InvalidTypes == {"Unspecified", "Null", "Other"}

\* one pass of the body of `while let Some(type_u16) = ...` over the stream
\* bytes from offset p, which is not the end of the stream: the type, the
\* tag and the flags, then the 8 bytes that hold an inline value or the
\* length and reserved words of an external one
read_record(m, prefix, stream, p) ==
    IF ~CanRead(stream, p, 8) THEN Return(PropIoError)
    ELSE LET type_u16 == read_u16_le(stream, p)
             t == PropTypeOf(type_u16)
             tag_u16 == read_u16_le(stream, p + 2)
             flags == read_u32_le(stream, p + 4)
             value_stream == open_stream(m, ValuePath(prefix, tag_u16,
                                                      type_u16))
             made(v) == IF v.some
                        THEN Push(CfbProperty(t, tag_u16, flags,
                                    PropValue(read_properties_variant(t),
                                              v.value)), p + 16)
                        ELSE Skip(p + 16)
         IN  IF t \in InvalidTypes
             THEN Return([kind |-> "InvalidPropertyType",
                          property_type |-> type_u16])
             ELSE IF ~CanRead(stream, p + 8, 8) THEN Return(PropIoError)
             ELSE IF t \in InlineTypes
             THEN made(Some(inline_value(t, SubSeq(stream, p + 9, p + 16))))
             ELSE IF t \in ExternalSingleTypes
             THEN IF value_stream.some
                  THEN made(external_value(t, value_stream.value))
                  ELSE Skip(p + 16)
             ELSE IF t \in ExternalFixedTypes
             THEN IF value_stream.some
                  THEN made(multiple_fixed_value(t, value_stream.value))
                  ELSE Skip(p + 16)
             ELSE made(multiple_streams_value(m, prefix, tag_u16, type_u16))

CfbReturn(r) ==
    /\ cfb_pc' = "done"
    /\ cfb_result' = r

\* read_cfb_msg: let mut msg = CompoundFile::open(reader)?, then the call
\* read_properties(&mut msg, "", 32)
CfbOpen ==
    /\ cfb_pc = "open"
    /\ IF ~container_ok
       THEN /\ CfbReturn(CfbErr(PropIoError))
            /\ UNCHANGED <<path_prefix, header_length>>
       ELSE /\ cfb_pc' = "properties"
            /\ path_prefix' = RootPrefix
            /\ header_length' = 32
            /\ UNCHANGED cfb_result
    /\ UNCHANGED <<container_ok, msg, prop_stream, stream_pos, header,
                   cfb_properties, msg_properties, header_bytes,
                   recipient_count, attachment_count, recipients, attachments,
                   record_log, notCfbVars>>

\* read_properties: the property stream is opened and its header read; a
\* failure of either is returned through read_cfb_msg by its `?`
CfbReadHeader ==
    /\ cfb_pc = "properties"
    /\ LET opened == open_stream(msg, PropPath(path_prefix))
       IN  IF ~opened.some \/ ~CanRead(opened.value, 0, header_length)
           THEN /\ CfbReturn(CfbErr(PropIoError))
                /\ UNCHANGED <<prop_stream, stream_pos, header, cfb_properties>>
           ELSE /\ prop_stream' = opened.value
                /\ header' = SubSeq(opened.value, 1, header_length)
                /\ stream_pos' = header_length
                /\ cfb_properties' = <<>>
                /\ cfb_pc' = "record"
                /\ UNCHANGED cfb_result
    /\ UNCHANGED <<container_ok, msg, path_prefix, header_length,
                   msg_properties, header_bytes, recipient_count,
                   attachment_count, recipients, attachments, record_log,
                   notCfbVars>>

\* read_properties: one pass of the while loop on a stream that is not at
\* its end; an error is returned through read_cfb_msg by its `?`
CfbReadRecord ==
    /\ cfb_pc = "record"
    /\ stream_pos < Len(prop_stream)
    /\ LET r == read_record(msg, path_prefix, prop_stream, stream_pos)
       IN  /\ record_log' = Append(record_log,
                                   [prefix |-> path_prefix, start |-> stream_pos,
                                    outcome |-> r.outcome,
                                    property |-> IF r.outcome = "push"
                                                 THEN Some(r.property)
                                                 ELSE None])
           /\ IF r.outcome = "return"
              THEN /\ CfbReturn(CfbErr(r.error))
                   /\ UNCHANGED <<stream_pos, cfb_properties>>
              ELSE /\ stream_pos' = r.pos
                   /\ cfb_properties' = IF r.outcome = "push"
                                        THEN Append(cfb_properties, r.property)
                                        ELSE cfb_properties
                   /\ UNCHANGED <<cfb_pc, cfb_result>>
    /\ UNCHANGED <<container_ok, msg, path_prefix, header_length, prop_stream,
                   header, msg_properties, header_bytes, recipient_count,
                   attachment_count, recipients, attachments, notCfbVars>>

\* struct Msg
Msg(props, recips, attachs) ==
    [properties |-> props, recipients |-> recips, attachments |-> attachs]

\* read_cfb_msg after a read_properties has returned: the next pass of the
\* recipient loop, then of the attachment loop, then Ok(Msg { ... })
CfbProceed(props, recipient_cnt, attachment_cnt, recips, attachs) ==
    IF Len(recips) < recipient_cnt
    THEN /\ cfb_pc' = "properties"
         /\ path_prefix' = RecipientPath(Len(recips))
         /\ header_length' = 8
         /\ UNCHANGED cfb_result
    ELSE IF Len(attachs) < attachment_cnt
    THEN /\ cfb_pc' = "properties"
         /\ path_prefix' = AttachmentPath(Len(attachs))
         /\ header_length' = 8
         /\ UNCHANGED cfb_result
    ELSE /\ CfbReturn(CfbOk(Msg(props, recips, attachs)))
         /\ UNCHANGED <<path_prefix, header_length>>

\* mutant: the counts read one word earlier in the header (the next ids)
header_counts_ids(bytes) ==
    [recipient_count |-> UsizeOfU32(read_u32_le(bytes, 8)),
     attachment_count |-> UsizeOfU32(read_u32_le(bytes, 12))]

\* read_cfb_msg: recipient_count and attachment_count out of header_bytes
header_counts(bytes) ==
    [recipient_count |-> UsizeOfU32(read_u32_le(bytes, 16)),
     attachment_count |-> UsizeOfU32(read_u32_le(bytes, 20))]

\* the read_properties of the root storage returns Ok at the end of its
\* stream; read_cfb_msg takes the counts out of the header
CfbRootRead ==
    /\ cfb_pc = "record"
    /\ stream_pos = Len(prop_stream)
    /\ path_prefix = RootPrefix
    /\ header_bytes' = header
    /\ msg_properties' = cfb_properties
    /\ recipient_count' = header_counts(header).recipient_count
    /\ attachment_count' = header_counts(header).attachment_count
    /\ CfbProceed(cfb_properties, header_counts(header).recipient_count,
                  header_counts(header).attachment_count, recipients,
                  attachments)
    /\ UNCHANGED <<container_ok, msg, prop_stream, stream_pos, header,
                   cfb_properties, recipients, attachments, record_log,
                   notCfbVars>>

\* the read_properties of a recipient storage returns Ok; the Recipient is
\* pushed
CfbRecipientRead ==
    /\ cfb_pc = "record"
    /\ stream_pos = Len(prop_stream)
    /\ path_prefix[1] = RecipientPath(0)[1]
    /\ recipients' = Append(recipients, [properties |-> cfb_properties])
    /\ CfbProceed(msg_properties, recipient_count, attachment_count,
                  recipients', attachments)
    /\ UNCHANGED <<container_ok, msg, prop_stream, stream_pos, header,
                   cfb_properties, msg_properties, header_bytes,
                   recipient_count, attachment_count, attachments, record_log,
                   notCfbVars>>

\* the read_properties of an attachment storage returns Ok; the Attachment
\* is pushed
CfbAttachmentRead ==
    /\ cfb_pc = "record"
    /\ stream_pos = Len(prop_stream)
    /\ path_prefix[1] = AttachmentPath(0)[1]
    /\ attachments' = Append(attachments, [properties |-> cfb_properties])
    /\ CfbProceed(msg_properties, recipient_count, attachment_count,
                  recipients, attachments')
    /\ UNCHANGED <<container_ok, msg, prop_stream, stream_pos, header,
                   cfb_properties, msg_properties, header_bytes,
                   recipient_count, attachment_count, recipients, record_log,
                   notCfbVars>>

NextCfb ==
    \/ CfbOpen
    \/ CfbReadHeader
    \/ CfbReadRecord
    \/ CfbRootRead
    \/ CfbRecipientRead
    \/ CfbAttachmentRead

(***************************************************************************)
(* The inputs of read_tnef: streams laid out as the reader consumes them   *)
(* (signature, legacy key, then records of level, id, length, payload,     *)
(* checksum), with right and wrong checksums, a negative length, a payload *)
(* long enough for its byte sum to pass 2^16, wrong signatures, and every  *)
(* truncation of each of these.                                            *)
(***************************************************************************)
\* the sum of the bytes of data[lo..hi], not reduced
RECURSIVE ByteSum(_, _, _)
ByteSum(data, lo, hi) ==
    IF lo > hi THEN 0
    ELSE IF lo = hi THEN data[lo]
    ELSE ByteSum(data, lo, (lo + hi) \div 2)
             + ByteSum(data, (lo + hi) \div 2 + 1, hi)

SumMod65536(data) == ByteSum(data, 1, Len(data)) % 65536

u16_le_bytes(v) == <<v % 256, v \div 256>>
u32_le_bytes(u) == u16_le_bytes(u[2]) \o u16_le_bytes(u[1])

\* the payload of n bytes: 255, 254, ...
Payload(n) == [i \in 1..n |-> 256 - i]
ShortPayloads == {Payload(n) : n \in 0..MaxLen}
\* 258 bytes of 0xFF: their sum is 65790, which wraps to 254
LongPayload == [i \in 1..258 |-> 255]

\* (level, id): LVL_MESSAGE attOemCodepage, LVL_ATTACHMENT attAttachData
RecordKinds == {<<1, <<6, 36871>>>>, <<2, <<6, 32783>>>>}

RecordBytes(kind, data, checksum) ==
    <<kind[1]>> \o u32_le_bytes(kind[2]) \o u32_le_bytes(<<0, Len(data)>>)
        \o data \o u16_le_bytes(checksum)

GoodRecords ==
    {RecordBytes(k, d, SumMod65536(d)) : k \in RecordKinds, d \in ShortPayloads}

\* a stored checksum that is off in its low or in its high byte, and a record
\* whose length field is -1
BadRecords ==
    {RecordBytes(k, d, (SumMod65536(d) + delta) % 65536) :
        k \in RecordKinds, d \in ShortPayloads, delta \in {1, 256}}
    \cup {<<1>> \o u32_le_bytes(<<6, 36871>>) \o <<255, 255, 255, 255>>}

RECURSIVE GoodBodies(_)
GoodBodies(n) ==
    IF n = 0 THEN {<<>>}
    ELSE LET S == GoodBodies(n - 1)
         IN  S \cup {s \o r : s \in S, r \in GoodRecords}

\* at most MaxAttrs records, of which only the last may be a bad one
Bodies ==
    GoodBodies(MaxAttrs)
    \cup {s \o r : s \in GoodBodies(MaxAttrs - 1), r \in BadRecords}

\* a first record with the long payload: its checksum right (254), left
\* unwrapped modulo 2^8 (255) or off by 256 (510); a short record may follow
\* the right one
LongBodies ==
    {RecordBytes(<<1, <<6, 36871>>>>, LongPayload, SumMod65536(LongPayload)) \o r :
        r \in {<<>>} \cup GoodRecords}
    \cup {RecordBytes(<<1, <<6, 36871>>>>, LongPayload, c) : c \in {255, 510}}

LegacyKeys == {0, 4660}

\* the CFB magic, and the TNEF signature with its third byte changed
WrongSignatures == {<<57361, 53200>>, <<8767, 40824>>}

TnefStreams ==
    {u32_le_bytes(TNEF_SIGNATURE) \o u16_le_bytes(k) \o b :
        k \in LegacyKeys, b \in Bodies}
    \cup {u32_le_bytes(TNEF_SIGNATURE) \o u16_le_bytes(0) \o b : b \in LongBodies}
    \cup {u32_le_bytes(s) \o u16_le_bytes(0) \o r :
            s \in WrongSignatures, r \in {<<>>} \cup GoodRecords}

Prefixes(S) == UNION {{SubSeq(s, 1, n) : n \in 0..Len(s)} : s \in S}

TnefInputs == Prefixes(TnefStreams)

RunIdle ==
    /\ run_pc = "idle"
    /\ magic = <<0, 0>>
    /\ callee = "none"
    /\ callee_pos = 0

TnefIdle ==
    /\ tnef_pc = "idle"
    /\ legacy_key = 0
    /\ attributes = <<>>
    /\ attrib_level = 0
    /\ attrib_id = <<0, 0>>
    /\ length = 0
    /\ data_buf = <<>>
    /\ tnef_result = Running

RtfIdle ==
    /\ compressed = <<>>
    /\ rtf_pc = "idle"
    /\ cursor = 0
    /\ dict = NoDict
    /\ ret = <<>>
    /\ control = 0
    /\ bit_index = 0
    /\ rtf_result = RtfRunning
    /\ end_marker_seen = FALSE
    /\ literal_tokens = 0
    /\ reference_tokens = 0

PropIdle ==
    /\ encoding = "UTF-8"
    /\ prop_pc = "idle"
    /\ prop_count = 0
    /\ properties = <<>>
    /\ prop_type_u16 = 0
    /\ prop_tag_u16 = 0
    /\ prop_full_id = None
    /\ prop_result = PropRunning
    /\ record_start = <<>>
    /\ value_start = <<>>
    /\ value_end = <<>>

CfbIdle ==
    /\ container_ok = FALSE
    /\ msg = <<>>
    /\ cfb_pc = "idle"
    /\ path_prefix = RootPrefix
    /\ header_length = 0
    /\ prop_stream = <<>>
    /\ stream_pos = 0
    /\ header = <<>>
    /\ cfb_properties = <<>>
    /\ msg_properties = <<>>
    /\ header_bytes = <<>>
    /\ recipient_count = 0
    /\ attachment_count = 0
    /\ recipients = <<>>
    /\ attachments = <<>>
    /\ cfb_result = CfbRunning
    /\ record_log = <<>>

LoopIdle ==
    /\ encoder = "UTF-8"
    /\ attribute_index = 0
    /\ headers = None
    /\ body = None
    /\ attachment_bin = None
    /\ email_eml = None
    /\ decode_calls = <<>>

ConvIdle ==
    /\ conv_pc = "idle"
    /\ conv_in = None
    /\ conv_mid = None
    /\ conv_out = None

\* read_tnef called on a cursor at the start of one of the inputs
InitTnef ==
    /\ buf \in TnefInputs
    /\ pos = 0
    /\ RunIdle
    /\ RtfIdle
    /\ PropIdle
    /\ CfbIdle
    /\ LoopIdle
    /\ ConvIdle
    /\ tnef_pc = "signature"
    /\ legacy_key = 0
    /\ attributes = <<>>
    /\ attrib_level = 0
    /\ attrib_id = <<0, 0>>
    /\ length = 0
    /\ data_buf = <<>>
    /\ tnef_result = Running

SpecTnef == InitTnef /\ [][NextTnef]_vars

(***************************************************************************)
(* The inputs of run: every choice of four first bytes among those of the  *)
(* TNEF signature, of the two halves of the CFB signature, of the TNEF     *)
(* signature in big-endian order and zero, each alone or followed by more  *)
(* bytes, and the files shorter than four bytes.                           *)
(***************************************************************************)
FirstBytes ==
    {<<b1, b2, b3, b4>> : b1 \in {120, 208, 161, 34, 0},
                          b2 \in {159, 207, 177, 62, 0},
                          b3 \in {62, 17, 26, 159, 0},
                          b4 \in {34, 224, 225, 120, 0}}

FileTails == {<<>>, <<161, 177, 26, 225>>, <<0, 0>>}

RunInputs == Prefixes({m \o t : m \in FirstBytes, t \in FileTails})

\* run() after the file has been read into buf and the cursor made over it
InitRun ==
    /\ buf \in RunInputs
    /\ pos = 0
    /\ run_pc = "magic"
    /\ magic = <<0, 0>>
    /\ callee = "none"
    /\ callee_pos = 0
    /\ TnefIdle
    /\ RtfIdle
    /\ PropIdle
    /\ CfbIdle
    /\ LoopIdle
    /\ ConvIdle

SpecRun == InitRun /\ [][NextRun]_vars

(***************************************************************************)
(* The inputs of decode_compressed_rtf: a 16-byte header (sizes, magic,    *)
(* crc) followed by every body of at most MaxBody bytes over RtfBytes, and *)
(* the inputs shorter than a header.  RtfBytes are control bytes whose     *)
(* low bits mix literals and references (0x00, 0x01, 0x0C, 0x0E, 0xF0) and *)
(* which pair up to reference words: 0x0000 and 0x000E (offset 0), 0x0CF0  *)
(* (offset 207, the initial write cursor), 0x0CE1 (offset 206, length 3,   *)
(* overlapping the bytes it writes).                                       *)
(***************************************************************************)
RtfBytes == {0, 1, 12, 14, 225, 240}

RECURSIVE BytesUpTo(_)
BytesUpTo(n) ==
    IF n = 0 THEN {<<>>}
    ELSE LET S == BytesUpTo(n - 1)
         IN  S \cup {Append(s, b) : s \in S, b \in RtfBytes}

RtfBodies == BytesUpTo(MaxBody)

\* compressed_size, raw_size, magic, crc
HeaderBytes(csize, rsize, m, crc) ==
    u32_le_bytes(csize) \o u32_le_bytes(rsize) \o u32_le_bytes(m)
        \o u32_le_bytes(crc)

RtfHeaders ==
    {HeaderBytes(<<0, 0>>, <<0, 0>>, LZFU, <<0, 0>>),
     HeaderBytes(<<0, 0>>, <<0, 0>>, MELA, <<0, 0>>),
     HeaderBytes(<<0, 30>>, <<0, 14>>, MELA, <<4660, 22136>>),
     HeaderBytes(<<0, 0>>, <<0, 0>>, <<0, 0>>, <<0, 0>>),
     HeaderBytes(<<0, 0>>, <<0, 0>>, <<30022, 23084>>, <<0, 0>>)}

\* the two bytes of a reference token: offset in the high 12 bits, stored
\* length in the low 4, big endian
RefWord(offset, len) ==
    <<(16 * offset + len) \div 256, (16 * offset + len) % 256>>

RECURSIVE Repeat(_, _)
Repeat(s, n) == IF n = 0 THEN <<>> ELSE s \o Repeat(s, n - 1)

\* a control byte of eight references, each to offset 0 with the longest
\* length (0xF, 17 bytes copied); a control byte of eight literals
RefGroup == <<255>> \o Repeat(RefWord(0, 15), 8)
LitGroup == <<0, 65, 66, 67, 68, 69, 70, 71, 72>>

\* the number of whole RefGroups whose output fits in the dictionary after
\* the preamble, and the write cursor after that many
WrapGroups ==
    (DICTIONARY_CAPACITY - Len(INIT_DICTIONARY)) \div (8 * actual_length(15))
WrapStart == Len(INIT_DICTIONARY) + WrapGroups * 8 * actual_length(15)

\* bodies long enough to take the write cursor past the end of the
\* dictionary: in the middle of a reference, then a reference read across
\* the end and an end marker; by literals; in a group the input runs out
\* of; by a reference to the byte before the write cursor
WrapBodies ==
    {Repeat(RefGroup, WrapGroups + 1)
        \o <<1>> \o RefWord(DICTIONARY_CAPACITY - 1, 1)
        \o <<65, 66, 67, 68, 69, 70, 71>>
        \o <<1>>
        \o RefWord((WrapStart + 8 * actual_length(15) + actual_length(1) + 7)
                       % DICTIONARY_CAPACITY, 0),
     Repeat(RefGroup, WrapGroups) \o Repeat(LitGroup, 11),
     Repeat(RefGroup, WrapGroups) \o <<255>> \o Repeat(RefWord(0, 15), 5),
     Repeat(RefGroup, WrapGroups)
        \o <<15>> \o Repeat(RefWord(0, 15), 4) \o <<65, 66, 67, 68>>
        \o <<128, 65, 66, 67, 68, 69, 70, 71>>
        \o RefWord((WrapStart + 4 * actual_length(15) + 11 - 1)
                       % DICTIONARY_CAPACITY, 15)}

RtfInputs ==
    {h \o b : h \in RtfHeaders, b \in RtfBodies} \cup Prefixes(RtfHeaders)
        \cup {HeaderBytes(<<0, 0>>, <<0, 0>>, LZFU, <<0, 0>>) \o b :
                  b \in WrapBodies}

InitRtf ==
    /\ buf = <<>>
    /\ pos = 0
    /\ RunIdle
    /\ TnefIdle
    /\ PropIdle
    /\ CfbIdle
    /\ LoopIdle
    /\ ConvIdle
    /\ compressed \in RtfInputs
    /\ rtf_pc = "header"
    /\ cursor = 0
    /\ dict = NoDict
    /\ ret = <<>>
    /\ control = 0
    /\ bit_index = 0
    /\ rtf_result = RtfRunning
    /\ end_marker_seen = FALSE
    /\ literal_tokens = 0
    /\ reference_tokens = 0

SpecRtf == InitRtf /\ [][NextRtf]_vars

\* decode_compressed_rtf is a sequential function that nothing suspends:
\* while a step of it is possible, one is taken
\* the inputs it is run on to its end: the bodies two bytes shorter than the
\* longest, and the long ones
RtfLiveInputs ==
    {c \in RtfInputs : Len(c) <= 16 + MaxBody - 2}
        \cup {HeaderBytes(<<0, 0>>, <<0, 0>>, LZFU, <<0, 0>>) \o b :
                  b \in WrapBodies}

InitRtfLive ==
    /\ buf = <<>>
    /\ pos = 0
    /\ RunIdle
    /\ TnefIdle
    /\ PropIdle
    /\ CfbIdle
    /\ LoopIdle
    /\ ConvIdle
    /\ compressed \in RtfLiveInputs
    /\ rtf_pc = "header"
    /\ cursor = 0
    /\ dict = NoDict
    /\ ret = <<>>
    /\ control = 0
    /\ bit_index = 0
    /\ rtf_result = RtfRunning
    /\ end_marker_seen = FALSE
    /\ literal_tokens = 0
    /\ reference_tokens = 0

SpecRtfLive == InitRtfLive /\ [][NextRtf]_vars /\ WF_vars(NextRtf)

(***************************************************************************)
(* The inputs of decode_properties: a u32 property count followed by       *)
(* property records (type code, tag code, for a tag of 0x8000 or more a    *)
(* guid and an id, then the value).  The tags lie on both sides of 0x8000  *)
(* and on it; the ids are numeric, names of even and odd length, a name    *)
(* that is not UTF-16 and an unknown id type; the values cover each arm of *)
(* the decoder, with right and wrong counts, lengths and booleans.         *)
(***************************************************************************)
GuidBytes == [i \in 1..16 |-> 16 * i - 1]

\* 0x0037 and 0x7FFF
UnnamedTags == {55, 32767}
\* 0x8000 and 0xFFFF
NamedTags == {32768, 65535}

\* what follows the tag of a named property
NamedIdBytes ==
    {\* the numeric id 0x8501
     GuidBytes \o u32_le_bytes(<<0, 0>>) \o u32_le_bytes(<<0, 34049>>),
     \* the name "ab"
     GuidBytes \o u32_le_bytes(<<0, 1>>) \o u32_le_bytes(<<0, 4>>)
         \o <<97, 0, 98, 0>>,
     \* the name "a" and two bytes of padding
     GuidBytes \o u32_le_bytes(<<0, 1>>) \o u32_le_bytes(<<0, 2>>)
         \o <<97, 0, 0, 0>>,
     \* a name of 3 bytes: one code unit and one byte of padding
     GuidBytes \o u32_le_bytes(<<0, 1>>) \o u32_le_bytes(<<0, 3>>)
         \o <<97, 0, 0>>,
     \* a name made of the lone surrogate 0xD800
     GuidBytes \o u32_le_bytes(<<0, 1>>) \o u32_le_bytes(<<0, 2>>)
         \o <<0, 216, 0, 0>>,
     \* the id type 2
     GuidBytes \o u32_le_bytes(<<0, 2>>) \o u32_le_bytes(<<0, 0>>)}

\* <<tag, bytes of the id>>
RecordHeads ==
    {<<t, <<>>>> : t \in UnnamedTags}
        \cup {<<t, i>> : t \in NamedTags, i \in NamedIdBytes}

\* <<type code, bytes of the value>>
RecordValues ==
    {<<0, <<>>>>,
     <<1, <<>>>>,
     <<2, <<52, 18, 0, 0>>>>,
     <<3, <<1, 2, 3, 4>>>>,
     <<10, <<1, 0, 0, 0, 2, 0, 0, 0>>>>,
     <<11, <<0, 0, 0, 0>>>>,
     <<11, <<1, 0, 0, 0>>>>,
     <<11, <<2, 0, 0, 0>>>>,
     <<13, u32_le_bytes(<<0, 1>>) \o u32_le_bytes(<<0, 3>>) \o <<9, 8, 7, 0>>>>,
     <<13, u32_le_bytes(<<0, 0>>)>>,
     <<13, u32_le_bytes(<<0, 2>>) \o u32_le_bytes(<<0, 0>>)
             \o u32_le_bytes(<<0, 0>>)>>,
     <<30, u32_le_bytes(<<0, 0>>)>>,
     <<30, u32_le_bytes(<<0, 1>>) \o u32_le_bytes(<<0, 5>>)
             \o <<239, 187, 191, 104, 105, 0, 0, 0>>>>,
     <<31, u32_le_bytes(<<0, 1>>) \o u32_le_bytes(<<0, 4>>)
             \o <<104, 0, 105, 0>>>>,
     <<31, u32_le_bytes(<<0, 1>>) \o u32_le_bytes(<<0, 3>>)
             \o <<104, 0, 105, 0>>>>,
     <<31, u32_le_bytes(<<0, 1>>) \o u32_le_bytes(<<0, 2>>)
             \o <<0, 220, 0, 0>>>>,
     <<31, u32_le_bytes(<<0, 2>>) \o u32_le_bytes(<<0, 0>>)
             \o u32_le_bytes(<<0, 0>>)>>,
     <<31, u32_le_bytes(<<0, 0>>)>>,
     <<72, GuidBytes>>,
     <<258, u32_le_bytes(<<0, 1>>) \o u32_le_bytes(<<0, 2>>) \o <<7, 7, 0, 0>>>>,
     <<258, u32_le_bytes(<<1, 1>>) \o u32_le_bytes(<<0, 0>>)>>,
     <<4098, u32_le_bytes(<<0, 2>>) \o <<1, 0, 0, 0, 2, 0, 0, 0>>>>,
     <<4116, u32_le_bytes(<<0, 1>>) \o <<1, 2, 3, 4, 5, 6, 7, 8>>>>,
     <<4127, u32_le_bytes(<<0, 2>>) \o u32_le_bytes(<<0, 2>>) \o <<104, 0, 0, 0>>
             \o u32_le_bytes(<<0, 0>>)>>,
     <<4127, u32_le_bytes(<<0, 2>>) \o u32_le_bytes(<<0, 2>>) \o <<104, 0, 0, 0>>
             \o u32_le_bytes(<<0, 3>>) \o <<105, 0, 0, 0>>>>,
     <<4126, u32_le_bytes(<<0, 2>>) \o u32_le_bytes(<<0, 1>>) \o <<104, 0, 0, 0>>
             \o u32_le_bytes(<<0, 0>>)>>,
     <<4354, u32_le_bytes(<<0, 2>>) \o u32_le_bytes(<<0, 1>>) \o <<7, 0, 0, 0>>
             \o u32_le_bytes(<<0, 4>>) \o <<1, 2, 3, 4>>>>,
     <<4168, u32_le_bytes(<<0, 1>>) \o GuidBytes>>,
     <<4354, u32_le_bytes(<<0, 0>>)>>,
     <<255, [i \in 1..128 |-> 0]>>,
     <<255, <<0, 0, 0, 0>>>>}

\* one value of each fixed-width type that RecordValues leaves out
FixedRecordValues ==
    {<<4, <<1, 2, 3, 4>>>>}
        \cup {<<t, <<1, 2, 3, 4, 5, 6, 7, 8>>>> : t \in {5, 6, 7, 20, 64}}
        \cup {<<t, u32_le_bytes(<<0, 1>>) \o <<1, 2, 3, 4>>>> :
                 t \in {4099, 4100}}
        \cup {<<t, u32_le_bytes(<<0, 1>>) \o <<1, 2, 3, 4, 5, 6, 7, 8>>>> :
                 t \in {4101, 4102, 4103, 4160}}

PropRecordBytes(head, val) ==
    u16_le_bytes(val[1]) \o u16_le_bytes(head[1]) \o head[2] \o val[2]

AllRecords == {PropRecordBytes(h, v) : h \in RecordHeads, v \in RecordValues}

\* the records of which every truncation is an input: each head with a value
\* of no bytes, and each value (but the 128 bytes of an unknown type) after
\* an unnamed tag
TruncatedRecords ==
    {PropRecordBytes(h, <<1, <<>>>>) : h \in RecordHeads}
        \cup {PropRecordBytes(<<55, <<>>>>, v) :
                 v \in {w \in RecordValues : Len(w[2]) < 128}}

\* the records of the streams of several properties
ShortRecords ==
    {PropRecordBytes(<<55, <<>>>>, <<1, <<>>>>),
     PropRecordBytes(<<55, <<>>>>,
                     <<258, u32_le_bytes(<<0, 1>>) \o u32_le_bytes(<<0, 4>>)
                               \o <<1, 2, 3, 4>>>>),
     PropRecordBytes(<<32767, <<>>>>, <<11, <<1, 0, 0, 0>>>>),
     PropRecordBytes(<<32768, GuidBytes \o u32_le_bytes(<<0, 0>>)
                                  \o u32_le_bytes(<<0, 34049>>)>>,
                     <<1, <<>>>>),
     PropRecordBytes(<<65535, GuidBytes \o u32_le_bytes(<<0, 1>>)
                                  \o u32_le_bytes(<<0, 2>>) \o <<97, 0, 0, 0>>>>,
                     <<2, <<52, 18, 0, 0>>>>)}

\* the concatenations of at most n short records
RECURSIVE RecordRuns(_)
RecordRuns(n) ==
    IF n = 0 THEN {<<>>}
    ELSE LET S == RecordRuns(n - 1)
         IN  S \cup {s \o r : s \in S, r \in ShortRecords}

PropInputs ==
    {u32_le_bytes(<<0, 1>>) \o r : r \in AllRecords}
        \cup {u32_le_bytes(<<0, 1>>) \o PropRecordBytes(<<55, <<>>>>, v) :
                 v \in FixedRecordValues}
        \cup Prefixes({u32_le_bytes(<<0, 1>>) \o r : r \in TruncatedRecords})
        \cup {u32_le_bytes(<<0, c>>) \o s :
                 c \in 0..(MaxProps + 1), s \in RecordRuns(MaxProps)}

Encodings == {"UTF-8", "windows-1252"}

\* decode_properties called on a cursor at the start of one of the inputs
InitProp ==
    /\ buf \in PropInputs
    /\ pos = 0
    /\ RunIdle
    /\ TnefIdle
    /\ RtfIdle
    /\ CfbIdle
    /\ LoopIdle
    /\ ConvIdle
    /\ encoding \in Encodings
    /\ prop_pc = "count"
    /\ prop_count = 0
    /\ properties = <<>>
    /\ prop_type_u16 = 0
    /\ prop_tag_u16 = 0
    /\ prop_full_id = None
    /\ prop_result = PropRunning
    /\ record_start = <<>>
    /\ value_start = <<>>
    /\ value_end = <<>>

SpecProp == InitProp /\ [][NextProp]_vars

(***************************************************************************)
(* The inputs of read_cfb_msg: compound files whose root property stream   *)
(* holds a 32-byte header and records of every type, inline and external,  *)
(* with value streams that are present, missing or ill-formed, followed by *)
(* further records; truncations of the root stream; and files with         *)
(* recipient and attachment storages that are missing, too short for their *)
(* header, empty, or hold records.  A file is built as a set of            *)
(* <<path, bytes>> pairs and turned into the function `msg`.               *)
(***************************************************************************)
\* the flags word of every record of the inputs (readable, writable)
CfbFlags == <<6, 0, 0, 0>>
\* the 8 bytes of an inline value
InlineTail == <<1, 2, 3, 4, 5, 6, 7, 8>>
\* the length and reserved words of an external value, which the reader
\* does not look at
ExternalTail == <<0, 0, 0, 0, 0, 0, 0, 0>>
Zeros(n) == [i \in 1..n |-> 0]
Counting(n) == [i \in 1..n |-> i]

\* the tag of the first record of a stream, and of those that follow it
FirstTag == 12289
FollowTag == 55

\* a record and the streams that go with it: subs is a set of
\* <<suffix, bytes>>, the suffix <<>> for the stream of the property and
\* <<index>> for the stream of one of its values
CfbItem(prefix, type, tag, tail, subs) ==
    [rec |-> u16_le_bytes(type) \o u16_le_bytes(tag) \o CfbFlags \o tail,
     streams |-> {<<ValuePath(prefix, tag, type) \o s[1], s[2]>> : s \in subs}]

ValueStream(bytes) == {<<<<>>, bytes>>}
ElementStream(index, bytes) == {<<<<index>>, bytes>>}

InlineCodes == {2, 3, 4, 5, 6, 7, 10, 20, 64}
InvalidCodes == {0, 1, 255}
ExternalFixedCodes == {4098, 4099, 4100, 4101, 4102, 4103, 4116, 4160, 4168}
ExternalCodes == {13, 30, 31, 72, 258, 4126, 4127, 4354} \cup ExternalFixedCodes

\* the width of one value of a multiple-valued type kept in one stream
ChunkBytes(code) ==
    CASE code = 4098 -> 2
      [] code \in {4099, 4100} -> 4
      [] code = 4168 -> 16
      [] OTHER -> 8

\* the ways the streams of an external property are laid out in the inputs;
\* {} is a property none of whose streams exists
SubStreams(code) ==
    {{}} \cup
    CASE code = 31 ->
            {ValueStream(<<104, 0, 105, 0>>), ValueStream(<<104, 0, 105>>),
             ValueStream(<<0, 216>>), ValueStream(<<>>)}
      [] code = 258 -> {ValueStream(<<1, 2, 3>>)}
      [] code = 30 ->
            {ValueStream(<<104, 105>>), ValueStream(<<255>>),
             ValueStream(<<195, 169>>), ValueStream(<<195>>)}
      [] code = 72 ->
            {ValueStream(GuidBytes), ValueStream(SubSeq(GuidBytes, 1, 15))}
      [] code = 13 -> {ValueStream(<<9>>)}
      [] code = 4354 ->
            {ValueStream(Zeros(12))} \cup
            {ValueStream(Zeros(16)) \cup e :
                e \in SUBSET (ElementStream(0, <<1>>) \cup
                              ElementStream(1, <<2, 3>>))}
      [] code = 4127 ->
            {ValueStream(Zeros(7))} \cup
            {ValueStream(Zeros(12)) \cup e0 \cup e1 \cup e2 :
                e0 \in {{}, ElementStream(0, <<97, 0>>)},
                e1 \in {{}, ElementStream(1, <<98, 0>>),
                        ElementStream(1, <<98, 0, 0>>),
                        ElementStream(1, <<0, 220>>)},
                e2 \in {ElementStream(2, <<99, 0>>), ElementStream(2, <<99>>)}}
      [] code = 4126 ->
            {ValueStream(Zeros(6))} \cup
            {ValueStream(Zeros(8)) \cup e0 \cup e1 :
                e0 \in {{}, ElementStream(0, <<97>>), ElementStream(0, <<128>>)},
                e1 \in {ElementStream(1, <<98>>),
                        ElementStream(1, <<192, 128>>)}}
      [] OTHER ->
            {ValueStream(<<>>), ValueStream(Counting(2 * ChunkBytes(code))),
             ValueStream(Counting(ChunkBytes(code) + 1))}

CfbItems(prefix, tag) ==
    {CfbItem(prefix, code, tag, InlineTail, {}) :
        code \in InlineCodes \cup InvalidCodes}
    \cup {CfbItem(prefix, 11, tag, <<b>> \o rest, {}) :
             b \in {0, 1, 2}, rest \in {Zeros(7), <<1, 0, 0, 0, 0, 0, 255>>}}
    \cup UNION {{CfbItem(prefix, code, tag, ExternalTail, subs) :
                    subs \in SubStreams(code)} : code \in ExternalCodes}

\* the records that follow the first one of a stream
FollowItems(prefix) ==
    {CfbItem(prefix, 3, FollowTag, InlineTail, {}),
     CfbItem(prefix, 1, FollowTag, InlineTail, {}),
     CfbItem(prefix, 4126, FollowTag, ExternalTail,
             ValueStream(Zeros(8)) \cup ElementStream(0, <<128>>)
                \cup ElementStream(1, <<98>>))}

ItemRuns(prefix, n) ==
    {<<>>} \cup
    {<<a>> \o f : a \in CfbItems(prefix, FirstTag),
                  f \in UNION {[1..k -> FollowItems(prefix)] : k \in 0..(n - 1)}}

RECURSIVE RunBytes(_)
RunBytes(run) ==
    IF run = <<>> THEN <<>> ELSE Head(run).rec \o RunBytes(Tail(run))

RunStreams(run) == UNION {run[i].streams : i \in 1..Len(run)}

\* the header of the root property stream: reserved, the next recipient and
\* attachment ids, the recipient and attachment counts, reserved
CfbHeader(rc, ac) ==
    Zeros(8) \o u32_le_bytes(<<0, 1>>) \o u32_le_bytes(<<0, 0>>)
        \o u32_le_bytes(<<0, rc>>) \o u32_le_bytes(<<0, ac>>) \o Zeros(8)

\* a storage: its property stream of header and records, and their streams
Storage(prefix, head, run) ==
    {<<PropPath(prefix), head \o RunBytes(run)>>} \cup RunStreams(run)

\* files of a root storage alone
RootFiles ==
    {Storage(RootPrefix, CfbHeader(0, 0), run) :
        run \in ItemRuns(RootPrefix, MaxCfbRecords)}

\* files whose root stream ends in the middle of its header or of a record
TruncatedFiles ==
    UNION {{{<<PropPath(RootPrefix),
               SubSeq(CfbHeader(0, 0) \o a.rec, 1, n)>>} \cup a.streams :
                n \in 0..47} : a \in FollowItems(RootPrefix)}

\* the ways a recipient or attachment storage is laid out in the inputs:
\* missing, too short for its header, without records, with records
StorageLayouts(prefix) ==
    {{}, {<<PropPath(prefix), Zeros(4)>>}, Storage(prefix, Zeros(8), <<>>)}
    \cup {Storage(prefix, Zeros(8),
                  <<CfbItem(prefix, 31, FollowTag, ExternalTail,
                            ValueStream(<<106, 0>>))>>)}

RECURSIVE RecipientStorages(_)
RecipientStorages(n) ==
    IF n = 0 THEN {{}}
    ELSE {s \cup v : s \in RecipientStorages(n - 1),
                     v \in StorageLayouts(RecipientPath(n - 1))
                           \cup {Storage(RecipientPath(n - 1), Zeros(8),
                                    <<CfbItem(RecipientPath(n - 1), 1, FollowTag,
                                              InlineTail, {})>>)}}

RECURSIVE AttachmentStorages(_)
AttachmentStorages(n) ==
    IF n = 0 THEN {{}}
    ELSE {s \cup v : s \in AttachmentStorages(n - 1),
                     v \in StorageLayouts(AttachmentPath(n - 1))}

\* files with recipient and attachment storages
StorageFiles ==
    UNION {{Storage(RootPrefix, CfbHeader(rc, ac), run) \cup rs \cup as :
                run \in {<<>>, <<CfbItem(RootPrefix, 3, FollowTag,
                                         InlineTail, {})>>},
                rs \in RecipientStorages(rc),
                as \in AttachmentStorages(ac)} :
            rc \in 0..MaxRecipients, ac \in 0..MaxAttachments}

\* the function from paths to bytes of a set of <<path, bytes>>
StreamsOf(S) ==
    [path \in {x[1] : x \in S} |-> (CHOOSE x \in S : x[1] = path)[2]]

CfbInputs ==
    {StreamsOf(S) : S \in RootFiles \cup TruncatedFiles \cup StorageFiles}

\* read_cfb_msg called on a reader that holds one of the files, or one that
\* is not a compound file
InitCfb ==
    /\ buf = <<>>
    /\ pos = 0
    /\ RunIdle
    /\ TnefIdle
    /\ RtfIdle
    /\ PropIdle
    /\ LoopIdle
    /\ ConvIdle
    /\ \/ container_ok = TRUE /\ msg \in CfbInputs
       \/ container_ok = FALSE /\ msg = <<>>
    /\ cfb_pc = "open"
    /\ path_prefix = RootPrefix
    /\ header_length = 0
    /\ prop_stream = <<>>
    /\ stream_pos = 0
    /\ header = <<>>
    /\ cfb_properties = <<>>
    /\ msg_properties = <<>>
    /\ header_bytes = <<>>
    /\ recipient_count = 0
    /\ attachment_count = 0
    /\ recipients = <<>>
    /\ attachments = <<>>
    /\ cfb_result = CfbRunning
    /\ record_log = <<>>

SpecCfb == InitCfb /\ [][NextCfb]_vars

(***************************************************************************)
(* The inputs of the attribute loop of run(): the attribute lists of the   *)
(* TnefFile read, with OemCodepage attributes of known and unknown code    *)
(* pages and of one byte, MsgProps and Attachment attributes whose         *)
(* property lists hold String8, Binary and Object values or are cut short, *)
(* AttachData and an attribute the loop only dumps.                        *)
(***************************************************************************)
\* a property list of one String8, the transport message headers, of the
\* bytes 48 E9 00 00
HeadersProps ==
    u32_le_bytes(<<0, 1>>) \o u16_le_bytes(30)
        \o u16_le_bytes(TagTransportMessageHeaders) \o u32_le_bytes(<<0, 1>>)
        \o u32_le_bytes(<<0, 4>>) \o <<72, 233, 0, 0>>

\* a property list of a Binary HTML body and a String8
BodyProps ==
    u32_le_bytes(<<0, 2>>) \o u16_le_bytes(258) \o u16_le_bytes(TagBodyHtml)
        \o u32_le_bytes(<<0, 1>>) \o u32_le_bytes(<<0, 2>>) \o <<60, 62, 0, 0>>
        \o u16_le_bytes(30) \o u16_le_bytes(55) \o u32_le_bytes(<<0, 1>>)
        \o u32_le_bytes(<<0, 1>>) \o <<228, 0, 0, 0>>

\* a property list of one Object, the attachment data, of n bytes
ObjectProps(n) ==
    u32_le_bytes(<<0, 1>>) \o u16_le_bytes(13)
        \o u16_le_bytes(TagAttachDataBinary) \o u32_le_bytes(<<0, 1>>)
        \o u32_le_bytes(<<0, n>>) \o [i \in 1..(n + ((4 - (n % 4)) % 4)) |-> i]

LoopAttribute(level, id, data) ==
    TnefAttribute(level, id, data, SumMod65536(data))

\* the attributes of which the lists of every length are made
CoreAttributes ==
    {LoopAttribute(1, OemCodepage, <<228, 4>>),
     LoopAttribute(1, OemCodepage, <<226, 4, 0, 0>>),
     LoopAttribute(1, OemCodepage, <<181, 1>>),
     LoopAttribute(1, MsgProps, HeadersProps),
     LoopAttribute(2, Attachment, HeadersProps)}

\* the attributes that stand alone or next to one other attribute
OtherAttributes ==
    {LoopAttribute(1, OemCodepage, <<233, 253>>),
     LoopAttribute(1, OemCodepage, <<228>>),
     LoopAttribute(1, MsgProps, BodyProps),
     LoopAttribute(1, MsgProps, SubSeq(HeadersProps, 1, 5)),
     LoopAttribute(2, Attachment, ObjectProps(17)),
     LoopAttribute(2, Attachment, ObjectProps(3)),
     LoopAttribute(2, AttachData, <<1, 2>>),
     LoopAttribute(1, <<6, 36870>>, <<5>>)}

AttributeLists ==
    UNION {[1..n -> CoreAttributes] : n \in 0..MaxAttributes}
        \cup {<<a>> : a \in OtherAttributes}
        \cup {<<a, b>> : a \in OtherAttributes,
                         b \in CoreAttributes \cup OtherAttributes}
        \cup {<<a, b>> : a \in CoreAttributes, b \in OtherAttributes}

\* run() when read_tnef has returned the TnefFile and the loop begins
InitLoop ==
    /\ buf = <<>>
    /\ pos = 0
    /\ run_pc = "attributes"
    /\ magic = TNEF_SIGNATURE
    /\ callee = "read_tnef"
    /\ callee_pos = 0
    /\ tnef_pc = "done"
    /\ legacy_key = 0
    /\ attributes \in AttributeLists
    /\ attrib_level = 0
    /\ attrib_id = <<0, 0>>
    /\ length = 0
    /\ data_buf = <<>>
    /\ tnef_result = Ok([legacy_key |-> 0, attributes |-> attributes])
    /\ RtfIdle
    /\ PropIdle
    /\ CfbIdle
    /\ encoder = "UTF-8"
    /\ attribute_index = 0
    /\ headers = None
    /\ body = None
    /\ attachment_bin = None
    /\ email_eml = None
    /\ decode_calls = <<>>
    /\ ConvIdle

SpecLoop == InitLoop /\ [][NextLoop]_vars

(***************************************************************************)
(* The wire layout of a TNEF stream, read off the buffer independently of  *)
(* the reader: the records that are complete in b from offset off on, each *)
(* with the offset just after it.  A record is level (1), id (4), length   *)
(* (4, signed), payload (length), checksum (2).                            *)
(***************************************************************************)
ByteAt(b, off) == b[off + 1]
WireU16(b, off) == ByteAt(b, off) + 256 * ByteAt(b, off + 1)
WireU32(b, off) == <<WireU16(b, off + 2), WireU16(b, off)>>

RECURSIVE WireRecords(_, _)
WireRecords(b, off) ==
    IF off + 9 > Len(b) \/ ByteAt(b, off + 8) >= 128 THEN <<>>
    ELSE LET n == WireU16(b, off + 5) + 65536 * WireU16(b, off + 7)
         IN  IF off + 9 + n + 2 > Len(b) THEN <<>>
             ELSE <<[level    |-> ByteAt(b, off),
                     id       |-> WireU32(b, off + 1),
                     data     |-> SubSeq(b, off + 10, off + 9 + n),
                     checksum |-> WireU16(b, off + 9 + n),
                     end      |-> off + 11 + n]>>
                  \o WireRecords(b, off + 11 + n)

\* the complete records after the 6-byte header
Records == WireRecords(buf, 6)

\* the offset just after the last complete record
RecordsEnd == IF Records = <<>> THEN 6 ELSE Records[Len(Records)].end

\* the complete records whose stored checksum is not the sum of the payload
BadChecksums == {i \in 1..Len(Records) : Records[i].checksum # SumMod65536(Records[i].data)}

Minimum(S) == CHOOSE x \in S : \A y \in S : x =< y

\* the buffer starts with the header of a TNEF stream: 78 9F 3E 22 and a key
HasTnefHeader ==
    /\ Len(buf) >= 6
    /\ SubSeq(buf, 1, 4) = <<120, 159, 62, 34>>

TnefDone == tnef_pc = "done"

(***************************************************************************)
(* C1.  read_tnef accepts an attribute record only when its stored u16     *)
(* checksum is the sum of its payload bytes modulo 2^16: if a complete     *)
(* record of the stream has another checksum, the call fails with          *)
(* ChecksumMismatch at the first such record; if none has, the call does   *)
(* not fail with ChecksumMismatch and every complete record is accepted;   *)
(* every attribute held or returned has checksum = (sum of data) mod 2^16. *)
(***************************************************************************)
C1_ChecksumGate ==
    /\ \A i \in 1..Len(attributes) :
          attributes[i].checksum = SumMod65536(attributes[i].data)
    /\ \A i \in 1..Len(tnef_result.file.attributes) :
          tnef_result.file.attributes[i].checksum
              = SumMod65536(tnef_result.file.attributes[i].data)
    /\ (TnefDone /\ HasTnefHeader) =>
          IF BadChecksums # {}
          THEN LET r == Records[Minimum(BadChecksums)]
               IN  /\ tnef_result.status = "Err"
                   /\ tnef_result.error.kind = "ChecksumMismatch"
                   /\ tnef_result.error.obtained = <<0, r.checksum>>
                   /\ tnef_result.error.calculated = SumMod65536(r.data)
          ELSE /\ tnef_result.error.kind # "ChecksumMismatch"
               /\ tnef_result.status = "Ok" =>
                     Len(tnef_result.file.attributes) = Len(Records)

\* a record whose byte sum passes 2^16 has been accepted with the wrapped sum
C1_Witness ==
    /\ Len(attributes) >= 1
    /\ ByteSum(attributes[1].data, 1, Len(attributes[1].data)) >= 65536
    /\ attributes[1].checksum = 254

\* a record with a wrong checksum has made the call fail
C1_WitnessMismatch ==
    /\ TnefDone
    /\ tnef_result.error.kind = "ChecksumMismatch"
    /\ Len(attributes) >= 1

(***************************************************************************)
(* C2.  End of input exactly at an attribute boundary (after the header or *)
(* after a complete record) makes read_tnef return Ok with the attributes  *)
(* read so far; end of input anywhere later inside a record (in its id,    *)
(* length, payload or checksum) makes it return an Io error.               *)
(***************************************************************************)
\* the bytes after the last complete record are the start of a record that
\* the end of input cuts short (its length field, if there, is not negative)
CutShort ==
    /\ Len(buf) > RecordsEnd
    /\ ~(RecordsEnd + 9 =< Len(buf) /\ ByteAt(buf, RecordsEnd + 8) >= 128)

C2_EofAtBoundary ==
    (TnefDone /\ HasTnefHeader /\ BadChecksums = {}) =>
        /\ Len(buf) = RecordsEnd =>
              /\ tnef_result.status = "Ok"
              /\ Len(tnef_result.file.attributes) = Len(Records)
              /\ pos = Len(buf)
        /\ CutShort =>
              /\ tnef_result.status = "Err"
              /\ tnef_result.error.kind = "Io"

\* the input ended right after a record, and the call returned what it had read
C2_Witness ==
    /\ TnefDone
    /\ tnef_result.status = "Ok"
    /\ Len(tnef_result.file.attributes) >= 1
    /\ pos = Len(buf)

(***************************************************************************)
(* C3.  When the first little-endian u32 of the input is not 0x223E9F78,   *)
(* read_tnef fails with the Signature error and has read no attribute (the *)
(* cursor stops after the four bytes); when it is, the little-endian u16   *)
(* that follows is the legacy_key of the result.                           *)
(***************************************************************************)
C3_Signature ==
    /\ (Len(buf) >= 4 /\ SubSeq(buf, 1, 4) # <<120, 159, 62, 34>>
            /\ tnef_pc # "signature") =>
          /\ TnefDone
          /\ tnef_result.status = "Err"
          /\ tnef_result.error.kind = "Signature"
          /\ tnef_result.error.obtained = WireU32(buf, 0)
          /\ attributes = <<>>
          /\ pos = 4
    /\ (HasTnefHeader /\ tnef_pc \notin {"signature", "legacy_key"}) =>
          /\ tnef_result.error.kind # "Signature"
          /\ legacy_key = WireU16(buf, 4)
          /\ tnef_result.status = "Ok" =>
                tnef_result.file.legacy_key = WireU16(buf, 4)

\* a stream with a wrong signature, followed by a well-formed record, rejected
C3_Witness ==
    /\ TnefDone
    /\ tnef_result.error.kind = "Signature"
    /\ Len(buf) > 6

\* a stream with the right signature and a nonzero key, read to its end
C3_WitnessKey ==
    /\ TnefDone
    /\ tnef_result.status = "Ok"
    /\ tnef_result.file.legacy_key = 4660

(***************************************************************************)
(* C4.  Whenever read_tnef succeeds, the i-th returned attribute is the    *)
(* i-th record of the input stream, and there are as many attributes as    *)
(* records: none is dropped, duplicated or reordered.  While reading, the  *)
(* attributes held are the first records of the stream, in order.          *)
(***************************************************************************)
SameRecord(a, r) ==
    /\ a.level = r.level
    /\ a.id = r.id
    /\ a.data = r.data
    /\ a.checksum = r.checksum

C4_StreamOrder ==
    /\ HasTnefHeader =>
          /\ Len(attributes) =< Len(Records)
          /\ \A i \in 1..Len(attributes) : SameRecord(attributes[i], Records[i])
    /\ tnef_result.status = "Ok" =>
          /\ Len(tnef_result.file.attributes) = Len(Records)
          /\ \A i \in 1..Len(Records) :
                SameRecord(tnef_result.file.attributes[i], Records[i])

\* two different records returned, in the order of the stream
C4_Witness ==
    /\ tnef_result.status = "Ok"
    /\ Len(tnef_result.file.attributes) = 2
    /\ tnef_result.file.attributes[1] # tnef_result.file.attributes[2]

(***************************************************************************)
(* Claims about decode_compressed_rtf.                                     *)
(***************************************************************************)
RtfDone == rtf_pc = "done"

\* the u32 at offset 8 is 0x75465A4C: the bytes 4C 5A 46 75
IsLzfu ==
    /\ Len(compressed) >= 16
    /\ SubSeq(compressed, 9, 12) = <<76, 90, 70, 117>>

\* the u32 at offset 8 is 0x414C454D: the bytes 4D 45 4C 41
IsMela ==
    /\ Len(compressed) >= 16
    /\ SubSeq(compressed, 9, 12) = <<77, 69, 76, 65>>

(***************************************************************************)
(* C5.  Once a dictionary reference whose offset equals the write cursor   *)
(* has been read, decoding has halted: no step consumes another input      *)
(* byte or appends to the output, and the call returns Ok with the output  *)
(* produced up to there, even if more input bytes remain.                  *)
(***************************************************************************)
C5_EndMarkerHalts ==
    [][end_marker_seen =>
          /\ cursor' = cursor
          /\ ret' = ret
          /\ rtf_pc' = "done" =>
                (rtf_result'.status = "Ok" /\ rtf_result'.value = ret)]_vars

(***************************************************************************)
(* C6.  For every input of at least 16 bytes whose u32 at offset 8 is      *)
(* 0x414C454D (MELA), decode_compressed_rtf returns Ok with exactly the    *)
(* bytes from offset 16 to the end, whatever the size and crc fields say,  *)
(* and without making a dictionary.                                        *)
(***************************************************************************)
C6_MelaPassthrough ==
    (RtfDone /\ IsMela) =>
        /\ rtf_result.status = "Ok"
        /\ Len(rtf_result.value) = Len(compressed) - 16
        /\ \A i \in 1..(Len(compressed) - 16) :
              rtf_result.value[i] = compressed[16 + i]
        /\ dict = NoDict
        /\ ret = <<>>

\* a MELA input whose raw_size field (14) is not the length of what follows
C6_Witness ==
    /\ RtfDone
    /\ IsMela
    /\ compressed[5] = 14
    /\ Len(rtf_result.value) \in 1..13

(***************************************************************************)
(* C7.  The LZFu input made of a header, the control byte 0b00000001 and   *)
(* the reference word 0x000E.  As claimed: the word is a reference to      *)
(* offset 0 with length 2, and decoding yields exactly the two bytes '{'   *)
(* and '\', with dictionary offsets 0..1 unchanged.                        *)
(***************************************************************************)
SelfReferenceInput ==
    /\ IsLzfu
    /\ SubSeq(compressed, 17, Len(compressed)) = <<1, 0, 14>>

C7_TwoBytes ==
    (SelfReferenceInput /\ rtf_pc \notin {"header", "control"} /\ cursor = 3) =>
        /\ ret = <<123, 92>>
        /\ DataAt(dict, 0) = 123
        /\ DataAt(dict, 1) = 92
        /\ RtfDone => rtf_result = RtfOk(<<123, 92>>)

(***************************************************************************)
(* C7, amended.  On that input the word 0x000E is a reference to offset 0  *)
(* with length 16 (0xE + 2): the reference appends the first 16 bytes of   *)
(* the preloaded dictionary, which begin with '{' and '\', to the output   *)
(* and copies them to dictionary offsets 207..222, leaving offsets 0..1    *)
(* unchanged; the call then returns an Io error, because the next token of *)
(* the control byte (a literal) has no input byte.                         *)
(***************************************************************************)
C7_SixteenBytes ==
    (SelfReferenceInput /\ rtf_pc \notin {"header", "control"} /\ cursor = 3) =>
        /\ ret = <<123, 92, 114, 116, 102, 49, 92, 97, 110, 115, 105, 92, 109,
                   97, 99, 92>>
        /\ DataAt(dict, 0) = 123
        /\ DataAt(dict, 1) = 92
        /\ \A i \in 1..16 : DataAt(dict, 206 + i) = ret[i]
        /\ dict.write_pos = 223
        /\ RtfDone => (rtf_result.status = "Err" /\ rtf_result.error.kind = "Io")

\* the reference of that input has been decoded and the call has returned
C7_Witness ==
    /\ SelfReferenceInput
    /\ RtfDone
    /\ cursor = 3
    /\ Len(ret) = 16

(***************************************************************************)
(* Claims about run, the front-end dispatcher.                             *)
(***************************************************************************)
\* run has left the dispatch: a reader has the cursor, or run has panicked
Dispatched == run_pc \notin {"idle", "magic", "seek", "dispatch"}

(***************************************************************************)
(* C8.  As claimed: the dispatcher routes an input to the CFB message      *)
(* reader when its first little-endian u32 is 0xE11AB1A1 (the bytes        *)
(* A1 B1 1A E1).                                                           *)
(***************************************************************************)
C8_HighHalfRoutes ==
    (Dispatched /\ Len(buf) >= 4 /\ SubSeq(buf, 1, 4) = <<161, 177, 26, 225>>) =>
        callee = "read_cfb_msg"

(***************************************************************************)
(* C8, amended.  The dispatcher routes an input to the CFB message reader  *)
(* when its first little-endian u32 is 0xE011CFD0 (the bytes D0 CF 11 E0), *)
(* that value being the low 32 bits of the CFB signature                   *)
(* 0xE11AB1A1E011CFD0; 0xE11AB1A1 is its high 32 bits.                     *)
(***************************************************************************)
C8_LowHalfRoutes ==
    /\ (Dispatched /\ Len(buf) >= 4 /\ SubSeq(buf, 1, 4) = <<208, 207, 17, 224>>) =>
          /\ callee = "read_cfb_msg"
          /\ magic = <<57361, 53200>>
    /\ callee = "read_cfb_msg" =>
          /\ magic = <<CFB_SIGNATURE[3], CFB_SIGNATURE[4]>>
          /\ WireU32(buf, 0) = magic

\* a file that starts with the whole 8-byte CFB signature, handed to the reader
C8_Witness ==
    /\ callee = "read_cfb_msg"
    /\ buf = <<208, 207, 17, 224, 161, 177, 26, 225>>

(***************************************************************************)
(* C9.  The dispatcher decides on the first four bytes alone: a buffer     *)
(* that starts 78 9F 3E 22 is handed to the TNEF reader, one that starts   *)
(* D0 CF 11 E0 to the CFB reader, and with any other four first bytes run  *)
(* ends in the unknown-format failure without a reader being called; a     *)
(* reader that is called receives the cursor at offset 0.                  *)
(***************************************************************************)
C9_Dispatch ==
    /\ (Dispatched /\ Len(buf) >= 4) =>
          IF SubSeq(buf, 1, 4) = <<120, 159, 62, 34>>
          THEN callee = "read_tnef" /\ run_pc = "in read_tnef"
          ELSE IF SubSeq(buf, 1, 4) = <<208, 207, 17, 224>>
          THEN callee = "read_cfb_msg" /\ run_pc = "in read_cfb_msg"
          ELSE callee = "none" /\ run_pc = "panicked: unknown file format"
    /\ callee # "none" => (callee_pos = 0 /\ pos = 0)

\* a buffer with the TNEF signature and more bytes, handed to read_tnef
C9_Witness ==
    /\ callee = "read_tnef"
    /\ callee_pos = 0
    /\ Len(buf) > 4

\* a buffer of zeroes, refused
C9_WitnessUnknown ==
    /\ run_pc = "panicked: unknown file format"
    /\ SubSeq(buf, 1, 4) = <<0, 0, 0, 0>>

(***************************************************************************)
(* Claims about decode_property and decode_properties.                     *)
(***************************************************************************)
PropDone == prop_pc = "done"

\* the tag code on the wire of the i-th record that decode_property began
WireTag(i) == WireU16(buf, record_start[i] + 2)

(***************************************************************************)
(* C10.  For every property in the list that decode_properties builds and  *)
(* returns, the id is present if and only if the 16-bit tag code of its    *)
(* record is 0x8000 or more.                                               *)
(***************************************************************************)
C10_IdIffNamedTag ==
    /\ \A i \in 1..Len(properties) :
          properties[i].id.some <=> (WireTag(i) >= 32768)
    /\ (PropDone /\ prop_result.status = "Ok") => prop_result.value = properties

\* a returned list with an unnamed property of tag 0x7FFF and a named one of
\* tag 0x8000
C10_Witness ==
    /\ PropDone
    /\ prop_result.status = "Ok"
    /\ \E i, j \in 1..Len(prop_result.value) :
          /\ WireTag(i) = 32767
          /\ ~prop_result.value[i].id.some
          /\ WireTag(j) = 32768
          /\ prop_result.value[j].id.some

\* the type code on the wire of the i-th record that decode_property began
WireType(i) == WireU16(buf, record_start[i])

\* the 29 type codes that name a PropType variant
DefinedTypeCodes ==
    {0, 1, 2, 3, 4, 5, 6, 7, 10, 11, 13, 20, 30, 31, 64, 72, 258,
     4098, 4099, 4100, 4101, 4102, 4103, 4116, 4126, 4127, 4160, 4168, 4354}

\* the match on prop_type has been left for the last record begun
ValueLeft == Len(value_start) > 0 /\ Len(value_start) = Len(record_start)

\* the number of the record whose value was handled last
LastValue == Len(value_start)

\* the value of the last record was not decoded
LastValueFailed == ValueLeft /\ Len(value_end) < Len(value_start)

(***************************************************************************)
(* C12.  Unknown type codes never crash the decoder: when the type code of *)
(* a record is not that of a defined PropType variant, decode_property     *)
(* returns to its caller, with a value or with an error, and does not      *)
(* panic.                                                                  *)
(***************************************************************************)
C12_UnknownTypeReturns ==
    (ValueLeft /\ WireType(LastValue) \notin DefinedTypeCodes) =>
        /\ prop_pc \in {"next", "done"}
        /\ prop_result.status \in {"Running", "Ok", "Err"}

(***************************************************************************)
(* C13.  An ErrorCode value is 32 bits wide: decoding a property of type   *)
(* 0x000A consumes exactly 4 bytes of value payload and yields a value of  *)
(* 4 bytes.                                                                *)
(***************************************************************************)
C13_ErrorCodeIs32Bits ==
    \A i \in 1..Len(value_end) :
        WireType(i) = 10 =>
            /\ value_end[i] - value_start[i] = 4
            /\ Len(properties[i].value.value) = 4

\* the u32 value count on the wire of the i-th record that reached its value
WireCount(i) == WireU32(buf, value_start[i])

\* the count of the last record is on the wire in full
CountOnWire == value_start[LastValue] + 4 =< Len(buf)

\* the offset after n elements laid out from offset off, each a u32 byte
\* count n_i, n_i bytes and (4 - n_i mod 4) mod 4 bytes of padding
RECURSIVE WireElementsEnd(_, _)
WireElementsEnd(off, n) ==
    IF n = 0 THEN off
    ELSE LET len == WireU32(buf, off)[2]
         IN  WireElementsEnd(off + 4 + len + ((4 - (len % 4)) % 4), n - 1)

\* Object, String8, String, Binary, MultipleString8, MultipleString,
\* MultipleBinary
VariableLengthCodes == {13, 30, 31, 258, 4126, 4127, 4354}

(***************************************************************************)
(* C14.  Padding closure: when a value of variable length is decoded, the  *)
(* cursor has moved, for each element of declared byte count n, past the   *)
(* 4 bytes of the count, the n bytes and (4 - n mod 4) mod 4 bytes of      *)
(* padding: a multiple of 4 from the start of each element's payload.      *)
(***************************************************************************)
C14_PaddingClosure ==
    \A i \in 1..Len(value_end) :
        WireType(i) \in VariableLengthCodes =>
            /\ value_end[i] = WireElementsEnd(value_start[i] + 4, WireCount(i)[2])
            /\ (value_end[i] - value_start[i]) % 4 = 0

\* a MultipleBinary of two elements, of 1 byte (3 of padding) and of 4 bytes
\* (none), decoded
C14_Witness ==
    \E i \in 1..Len(value_end) :
        /\ WireType(i) = 4354
        /\ WireCount(i) = <<0, 2>>
        /\ value_end[i] - value_start[i] = 20
        /\ properties[i].value.value = <<<<7>>, <<1, 2, 3, 4>>>>

\* Object, String8, String, Binary
SingletonCodes == {13, 30, 31, 258}

IsMultipleValuesSingleType ==
    /\ prop_pc = "done"
    /\ prop_result.status = "Err"
    /\ prop_result.error.kind = "MultipleValuesSingleType"

(***************************************************************************)
(* C15.  A property of type Object, Binary, String8 or String whose u32    *)
(* value count is not 1 (0 included) fails with MultipleValuesSingleType,  *)
(* whatever follows the count and even if nothing does; MultipleBinary,    *)
(* MultipleString8 and MultipleString never fail with that error, and are  *)
(* decoded with a count of 0 and with a count of 2.                        *)
(***************************************************************************)
C15_SingletonCount ==
    /\ (ValueLeft /\ WireType(LastValue) \in SingletonCodes /\ CountOnWire
            /\ WireCount(LastValue) # <<0, 1>>) =>
          /\ IsMultipleValuesSingleType
          /\ prop_result.error.count = WireCount(LastValue)
          /\ Len(properties) = LastValue - 1
    /\ IsMultipleValuesSingleType =>
          /\ WireType(LastValue) \in SingletonCodes
          /\ WireCount(LastValue) # <<0, 1>>
    /\ \A i \in 1..Len(value_end) :
          /\ WireType(i) \in SingletonCodes => WireCount(i) = <<0, 1>>
          /\ WireType(i) \in {4126, 4127, 4354} =>
                Len(properties[i].value.value) = WireCount(i)[2]

\* a String with a count of 0 and nothing after it, refused
C15_Witness ==
    /\ IsMultipleValuesSingleType
    /\ WireType(LastValue) = 31
    /\ WireCount(LastValue) = <<0, 0>>
    /\ Len(buf) = value_start[LastValue] + 4

\* an Object with a count of 2, refused
C15_WitnessObject ==
    /\ IsMultipleValuesSingleType
    /\ WireType(LastValue) = 13
    /\ WireCount(LastValue) = <<0, 2>>

\* a MultipleBinary with a count of 0 and one of 2 elements, decoded
C15_WitnessMultiple ==
    /\ \E i \in 1..Len(value_end) :
          WireType(i) = 4354 /\ WireCount(i) \in {<<0, 0>>, <<0, 2>>}

(***************************************************************************)
(* C16.  A Boolean value byte of 0x00 decodes to false and 0x01 to true;   *)
(* every other byte fails with InvalidBoolean and no property is listed    *)
(* for that record.                                                        *)
(***************************************************************************)
C16_Boolean ==
    /\ \A i \in 1..Len(value_end) :
          WireType(i) = 11 =>
              /\ ByteAt(buf, value_start[i]) \in {0, 1}
              /\ properties[i].value.variant = "Boolean"
              /\ properties[i].value.value = (ByteAt(buf, value_start[i]) = 1)
    /\ (ValueLeft /\ WireType(LastValue) = 11
            /\ value_start[LastValue] + 4 =< Len(buf)) =>
          IF ByteAt(buf, value_start[LastValue]) \in {0, 1}
          THEN ~LastValueFailed
          ELSE /\ prop_pc = "done"
               /\ prop_result = PropErr([kind |-> "InvalidBoolean",
                     obtained |-> ByteAt(buf, value_start[LastValue])])
               /\ Len(properties) = LastValue - 1

\* the byte 0x02, refused
C16_Witness ==
    /\ prop_pc = "done"
    /\ prop_result = PropErr([kind |-> "InvalidBoolean", obtained |-> 2])
    /\ WireType(LastValue) = 11

\* the byte 0x01, decoded to true
C16_WitnessTrue ==
    \E i \in 1..Len(value_end) :
        WireType(i) = 11 /\ properties[i].value.value = TRUE

\* every byte count of the n elements laid out from offset off is even
RECURSIVE WireLengthsEven(_, _)
WireLengthsEven(off, n) ==
    IF n = 0 THEN TRUE
    ELSE LET len == WireU32(buf, off)[2]
         IN  /\ len % 2 = 0
             /\ WireLengthsEven(off + 4 + len + ((4 - (len % 4)) % 4), n - 1)

IsOddStringLength ==
    /\ prop_pc = "done"
    /\ prop_result.status = "Err"
    /\ prop_result.error.kind = "OddStringLength"

(***************************************************************************)
(* C17.  A String or MultipleString element whose declared u32 byte count  *)
(* is odd fails with OddStringLength, whatever follows the count and even  *)
(* if no code unit does; every element of a decoded String or              *)
(* MultipleString has an even byte count.                                  *)
(***************************************************************************)
C17_OddStringLength ==
    /\ (ValueLeft /\ WireType(LastValue) \in {31, 4127}
            /\ value_start[LastValue] + 8 =< Len(buf)
            /\ (WireType(LastValue) = 31 => WireCount(LastValue) = <<0, 1>>)
            /\ WireCount(LastValue) # <<0, 0>>
            /\ WireU32(buf, value_start[LastValue] + 4)[2] % 2 = 1) =>
          /\ IsOddStringLength
          /\ prop_result.error.byte_length
                = WireU32(buf, value_start[LastValue] + 4)
          /\ Len(properties) = LastValue - 1
    /\ IsOddStringLength => WireType(LastValue) \in {31, 4127}
    /\ \A i \in 1..Len(value_end) :
          WireType(i) \in {31, 4127} =>
              WireLengthsEven(value_start[i] + 4, WireCount(i)[2])

\* a String of 3 bytes with nothing after the byte count, refused
C17_Witness ==
    /\ IsOddStringLength
    /\ WireType(LastValue) = 31
    /\ prop_result.error.byte_length = <<0, 3>>
    /\ Len(buf) = value_start[LastValue] + 8

\* a MultipleString refused for its second element
C17_WitnessSecond ==
    /\ IsOddStringLength
    /\ WireType(LastValue) = 4127
    /\ WireU32(buf, value_start[LastValue] + 4)[2] % 2 = 0

(***************************************************************************)
(* The wire layout of a compound file, read off `msg` independently of the *)
(* reader: the bytes of the property stream a logged record is in, its     *)
(* type code and tag, and whether its type, tag and flags are all there.   *)
(***************************************************************************)
LogStream(i) == msg[PropPath(record_log[i].prefix)]
LogType(i) == WireU16(LogStream(i), record_log[i].start)
LogTag(i) == WireU16(LogStream(i), record_log[i].start + 2)
LogHeadComplete(i) == record_log[i].start + 8 =< Len(LogStream(i))
LogComplete(i) == record_log[i].start + 16 =< Len(LogStream(i))
LastLog == Len(record_log)

IsInvalidPropertyType(code) ==
    /\ cfb_pc = "done"
    /\ cfb_result = CfbErr([kind |-> "InvalidPropertyType",
                            property_type |-> code])

(***************************************************************************)
(* C19.  In the CFB reader a record whose type code is Unspecified (0),    *)
(* Null (1) or not a defined code, and whose type, tag and flags are in    *)
(* the stream, makes the call return InvalidPropertyType with that code:   *)
(* it is the last record read and the result carries no property list.     *)
(***************************************************************************)
C19_InvalidTypeFails ==
    \A i \in 1..Len(record_log) :
        (LogHeadComplete(i) /\ LogType(i) \notin DefinedTypeCodes \ {0, 1}) =>
            /\ i = LastLog
            /\ record_log[i].outcome = "return"
            /\ IsInvalidPropertyType(LogType(i))

\* a Null record read after a listed one and before another record of the
\* root stream, which is left unread
C19_Witness ==
    /\ LastLog = 2
    /\ LogComplete(LastLog)
    /\ record_log[1].outcome = "push"
    /\ LogType(LastLog) = 1
    /\ record_log[LastLog].start + 16 < Len(LogStream(LastLog))
    /\ IsInvalidPropertyType(1)

\* an undefined code at the head of the root stream
C19_WitnessOther ==
    /\ LastLog = 1
    /\ LogComplete(1)
    /\ LogType(1) = 255
    /\ IsInvalidPropertyType(255)

\* a Null record in the stream of the second recipient
C19_WitnessRecipient ==
    /\ LastLog > 0
    /\ record_log[LastLog].prefix = RecipientPath(1)
    /\ Len(recipients) = 1
    /\ IsInvalidPropertyType(1)

\* the elements of a set of numbers in increasing order
RECURSIVE Ascending(_)
Ascending(S) ==
    IF S = {} THEN <<>>
    ELSE LET least == CHOOSE x \in S : \A y \in S : x =< y
         IN  <<least>> \o Ascending(S \ {least})

\* the UTF-16 code units of a buffer of even length
WireWords(bytes) == [j \in 1..(Len(bytes) \div 2) |-> WireU16(bytes, 2 * (j - 1))]

\* no surrogate of the code units stands alone
WellPaired(words) ==
    \A j \in 1..Len(words) :
        /\ words[j] \in 55296..56319 =>
              j < Len(words) /\ words[j + 1] \in 56320..57343
        /\ words[j] \in 56320..57343 =>
              j > 1 /\ words[j - 1] \in 55296..56319

\* the stream of element k of the multiple-valued property of record i
LogElementPath(i, k) ==
    <<record_log[i].prefix, "/__substg1.0_", LogTag(i), LogType(i), k>>
LogLengthsPath(i) ==
    <<record_log[i].prefix, "/__substg1.0_", LogTag(i), LogType(i)>>

\* element k of record i can be opened and is well-formed for its type
ElementSurvives(i, k) ==
    /\ LogElementPath(i, k) \in DOMAIN msg
    /\ LET bytes == msg[LogElementPath(i, k)]
       IN  CASE LogType(i) = 4127 ->
                    Len(bytes) % 2 = 0 /\ WellPaired(WireWords(bytes))
             [] LogType(i) = 4126 -> from_utf8_ok(bytes, 1)
             [] OTHER -> TRUE

\* record i is a complete record of a type kept in one stream a value, and
\* its lengths stream declares a whole number of values
LogDeclaresElements(i) ==
    /\ LogComplete(i)
    /\ LogType(i) \in {4126, 4127, 4354}
    /\ LogLengthsPath(i) \in DOMAIN msg
    /\ Len(msg[LogLengthsPath(i)]) % (IF LogType(i) = 4354 THEN 8 ELSE 4) = 0

LogElementCount(i) ==
    Len(msg[LogLengthsPath(i)]) \div (IF LogType(i) = 4354 THEN 8 ELSE 4)

\* the surviving elements of record i in the order of their indices
LogSurvivors(i) ==
    LET order == Ascending({k \in 0..(LogElementCount(i) - 1) :
                                ElementSurvives(i, k)})
    IN  [j \in 1..Len(order) |->
            IF LogType(i) = 4127 THEN WireWords(msg[LogElementPath(i, order[j])])
            ELSE msg[LogElementPath(i, order[j])]]

\* the place of the property of record i in the list of its storage
PushIndex(i) ==
    Cardinality({j \in 1..i : /\ record_log[j].prefix = record_log[i].prefix
                              /\ record_log[j].outcome = "push"})

\* the property list of a storage in the Msg returned
ReturnedList(prefix) ==
    IF prefix = RootPrefix THEN cfb_result.value.properties
    ELSE IF prefix[1] = "/__recip_version1.0_#"
    THEN cfb_result.value.recipients[prefix[2] + 1].properties
    ELSE cfb_result.value.attachments[prefix[2] + 1].properties

(***************************************************************************)
(* C20.  In the CFB reader a MultipleBinary, MultipleString or             *)
(* MultipleString8 record whose lengths stream declares its elements is    *)
(* listed with exactly the elements that can be opened and are well-formed,*)
(* in the order of their indices, whatever the other elements are; the     *)
(* reader goes on to the record after it, and a Msg returned holds the     *)
(* property at its place.                                                  *)
(***************************************************************************)
C20_ElementSkipped ==
    \A i \in 1..Len(record_log) :
        LogDeclaresElements(i) =>
            /\ record_log[i].outcome = "push"
            /\ record_log[i].property.value.tag = LogTag(i)
            /\ record_log[i].property.value.value.value = LogSurvivors(i)
            /\ (i = LastLog /\ record_log[i].start + 16 < Len(LogStream(i))) =>
                  /\ cfb_pc = "record"
                  /\ stream_pos = record_log[i].start + 16
            /\ cfb_result.status = "Ok" =>
                  ReturnedList(record_log[i].prefix)[PushIndex(i)]
                      = record_log[i].property.value

\* a MultipleString of three elements whose second is ill-formed or missing
\* and whose first and third survive, followed by a record that is read
C20_Witness ==
    \E i \in 1..Len(record_log) :
        /\ LogDeclaresElements(i)
        /\ LogType(i) = 4127
        /\ LogElementCount(i) = 3
        /\ ElementSurvives(i, 0) /\ ~ElementSurvives(i, 1)
        /\ ElementSurvives(i, 2)
        /\ Len(record_log[i].property.value.value.value) = 2
        /\ i < LastLog
        /\ cfb_result.status = "Ok"

\* a MultipleBinary whose first element stream is missing
C20_WitnessBinary ==
    \E i \in 1..Len(record_log) :
        /\ LogDeclaresElements(i)
        /\ LogType(i) = 4354
        /\ LogElementPath(i, 0) \notin DOMAIN msg
        /\ record_log[i].property.value.value.value = <<(<<2, 3>>)>>
        /\ i < LastLog

\* a MultipleString8 whose first element is not UTF-8
C20_WitnessString8 ==
    \E i \in 1..Len(record_log) :
        /\ LogDeclaresElements(i)
        /\ LogType(i) = 4126
        /\ LogElementPath(i, 0) \in DOMAIN msg
        /\ ~ElementSurvives(i, 0)
        /\ Len(record_log[i].property.value.value.value) = 1
        /\ cfb_result.status = "Ok"

\* an odd-length element, an element with a lone surrogate
C20_WitnessOdd ==
    \E i \in 1..Len(record_log) :
        /\ LogDeclaresElements(i)
        /\ LogType(i) = 4127
        /\ LogElementPath(i, 1) \in DOMAIN msg
        /\ Len(msg[LogElementPath(i, 1)]) % 2 = 1
        /\ ElementSurvives(i, 0)
        /\ record_log[i].outcome = "push"

C20_WitnessSurrogate ==
    \E i \in 1..Len(record_log) :
        /\ LogDeclaresElements(i)
        /\ LogType(i) = 4127
        /\ LogElementPath(i, 1) \in DOMAIN msg
        /\ msg[LogElementPath(i, 1)] = <<0, 220>>
        /\ ElementSurvives(i, 2)
        /\ Len(record_log[i].property.value.value.value) = 2

\* the root property stream, and a u32 of its header as a number
RootStream == msg[PropPath(RootPrefix)]
WireHeaderCount(off) == WireU32(RootStream, off)[2]
RootHeaderRead ==
    /\ container_ok
    /\ PropPath(RootPrefix) \in DOMAIN msg
    /\ Len(RootStream) >= 32
    /\ WireU32(RootStream, 16)[1] = 0
    /\ WireU32(RootStream, 20)[1] = 0

\* the property stream of a storage cannot be opened or is shorter than
\* its 8-byte header
Unreadable(prefix) ==
    \/ <<prefix, "/__properties_version1.0">> \notin DOMAIN msg
    \/ Len(msg[<<prefix, "/__properties_version1.0">>]) < 8

(***************************************************************************)
(* C18.  A Msg returned by read_cfb_msg has as many recipients as the      *)
(* little-endian u32 at bytes 16..20 of the root stream header says and as *)
(* many attachments as the u32 at bytes 20..24 says; when the property     *)
(* stream of a recipient or attachment below those counts is missing or    *)
(* shorter than its header, the call ends in an error.                     *)
(***************************************************************************)
C18_CountsMatchHeader ==
    /\ cfb_result.status = "Ok" =>
          /\ RootHeaderRead
          /\ Len(cfb_result.value.recipients) = WireHeaderCount(16)
          /\ Len(cfb_result.value.attachments) = WireHeaderCount(20)
    /\ (/\ cfb_pc = "done"
        /\ RootHeaderRead
        /\ \/ \E k \in 0..(WireHeaderCount(16) - 1) :
                  Unreadable(<<"/__recip_version1.0_#", k>>)
           \/ \E k \in 0..(WireHeaderCount(20) - 1) :
                  Unreadable(<<"/__attach_version1.0_#", k>>)) =>
          cfb_result.status = "Err"

\* two recipients and one attachment declared and returned
C18_Witness ==
    /\ cfb_result.status = "Ok"
    /\ WireHeaderCount(16) = 2
    /\ WireHeaderCount(20) = 1
    /\ Len(cfb_result.value.recipients) = 2
    /\ Len(cfb_result.value.attachments) = 1

\* the second recipient's property stream is missing: the first recipient
\* was read and the call failed
C18_WitnessMissing ==
    /\ cfb_pc = "done"
    /\ RootHeaderRead
    /\ WireHeaderCount(16) = 2
    /\ <<(<<"/__recip_version1.0_#", 1>>), "/__properties_version1.0">>
            \notin DOMAIN msg
    /\ Len(recipients) = 1
    /\ cfb_result = CfbErr(PropIoError)

\* an attachment's property stream is shorter than its header
C18_WitnessShort ==
    /\ cfb_pc = "done"
    /\ RootHeaderRead
    /\ WireHeaderCount(20) = 1
    /\ WireHeaderCount(16) = Len(recipients)
    /\ <<(<<"/__attach_version1.0_#", 0>>), "/__properties_version1.0">>
            \in DOMAIN msg
    /\ Unreadable(<<"/__attach_version1.0_#", 0>>)
    /\ cfb_result = CfbErr(PropIoError)

(***************************************************************************)
(* The two property decoders side by side: decode_properties on a TNEF     *)
(* property buffer, or read_cfb_msg on a compound file.                    *)
(***************************************************************************)
InitDecoders ==
    \/ InitProp
    \/ InitCfb

NextDecoders ==
    \/ NextProp
    \/ NextCfb

SpecDecoders == InitDecoders /\ [][NextDecoders]_vars

(***************************************************************************)
(* C11.  Every value decoded by the TNEF property decoder, and every       *)
(* property listed by the CFB property reader, carries the PropValue       *)
(* variant of the same name as the PropType of the 16-bit type code of its *)
(* record; the CFB property also records that PropType.                    *)
(***************************************************************************)
C11_VariantMatchesType ==
    /\ \A i \in 1..Len(value_end) :
          /\ WireType(i) \in DefinedTypeCodes
          /\ properties[i].value.variant = PropTypeOf(WireType(i))
    /\ \A i \in 1..Len(record_log) :
          record_log[i].outcome = "push" =>
              /\ LogType(i) \in DefinedTypeCodes
              /\ record_log[i].property.value.property_type
                    = PropTypeOf(LogType(i))
              /\ record_log[i].property.value.value.variant
                    = PropTypeOf(LogType(i))

\* a String decoded by the TNEF decoder
C11_Witness ==
    \E i \in 1..Len(value_end) :
        WireType(i) = 31 /\ properties[i].value.variant = "String"

\* a MultipleBinary listed by the CFB reader
C11_WitnessCfb ==
    \E i \in 1..Len(record_log) :
        /\ record_log[i].outcome = "push"
        /\ LogType(i) = 4354
        /\ record_log[i].property.value.value.variant = "MultipleBinary"

(***************************************************************************)
(* The encoder the attribute at place k of the file is owed, read off the  *)
(* attribute list independently of the loop: that of the last OemCodepage  *)
(* attribute before place k whose data has 2 bytes or more and begins with *)
(* a known code page in little-endian order, UTF-8 when there is none.     *)
(***************************************************************************)
SelectsEncoder(j) ==
    /\ attributes[j].id = <<6, 36871>>
    /\ Len(attributes[j].data) >= 2
    /\ to_encoding(WireU16(attributes[j].data, 0)).some

EncoderOwed(k) ==
    LET S == {j \in 1..(k - 1) : SelectsEncoder(j)}
    IN  IF S = {} THEN "UTF-8"
        ELSE LET last == CHOOSE j \in S : \A i \in S : i =< j
             IN  to_encoding(WireU16(attributes[last].data, 0)).value

HoldsProperties(j) == attributes[j].id \in {<<6, 36867>>, <<6, 36869>>}

(***************************************************************************)
(* C21.  In the attribute loop of run(), decode_properties is called once  *)
(* for each MsgProps or Attachment attribute reached, in stream order, with*)
(* the encoder selected by the most recent OemCodepage attribute before it *)
(* that carried a known code page, and with UTF-8 when none did; every     *)
(* String8 value decoded for the attribute carries that encoding.          *)
(***************************************************************************)
C21_EncoderFollowsCodepage ==
    /\ \A c \in 1..Len(decode_calls) :
          /\ HoldsProperties(decode_calls[c].index)
          /\ decode_calls[c].encoding = EncoderOwed(decode_calls[c].index)
          /\ c > 1 => decode_calls[c - 1].index < decode_calls[c].index
    /\ {decode_calls[c].index : c \in 1..Len(decode_calls)}
          = {j \in 1..Len(attributes) :
                /\ HoldsProperties(j)
                /\ \/ j =< attribute_index
                   \/ j = attribute_index + 1 /\ run_pc # "attributes"}
    /\ run_pc = "in decode_properties" =>
          /\ encoding = EncoderOwed(attribute_index + 1)
          /\ \A i \in 1..Len(properties) :
                properties[i].value.variant = "String8" =>
                    properties[i].value.value.encoding
                        = EncoderOwed(attribute_index + 1)
    /\ run_pc = "attributes" => encoder = EncoderOwed(attribute_index + 1)

\* a property list decoded as UTF-8, then code page 1252, then a String8
\* decoded as windows-1252
C21_Witness ==
    /\ Len(decode_calls) = 2
    /\ decode_calls[1].encoding = "UTF-8"
    /\ decode_calls[2].encoding = "windows-1252"
    /\ SelectsEncoder(2)
    /\ run_pc = "in decode_properties"
    /\ prop_pc = "done"
    /\ Len(properties) = 1
    /\ properties[1].value.variant = "String8"
    /\ properties[1].value.value.encoding = "windows-1252"

\* an unknown code page after a known one leaves the known one in force
C21_WitnessUnknown ==
    /\ Len(attributes) = 3
    /\ SelectsEncoder(1)
    /\ attributes[2].id = <<6, 36871>> /\ ~SelectsEncoder(2)
    /\ decode_calls = <<[index |-> 3, encoding |-> "windows-1252"]>>

\* an OemCodepage of one byte changes nothing
C21_WitnessShort ==
    /\ Len(attributes) = 2
    /\ attributes[1].id = <<6, 36871>> /\ Len(attributes[1].data) = 1
    /\ decode_calls = <<[index |-> 2, encoding |-> "UTF-8"]>>

\* a later code page replaces an earlier one
C21_WitnessReplaced ==
    /\ Len(attributes) = 3
    /\ SelectsEncoder(1) /\ SelectsEncoder(2)
    /\ decode_calls = <<[index |-> 3, encoding |-> "windows-1250"]>>
    /\ run_pc = "returned"

(***************************************************************************)
(* PropType::from_base_type and PropType::to_base_type, one applied to the *)
(* result of the other, from every u16 and from every value of the enum.   *)
(***************************************************************************)
U16 == 0 .. 65535

NamedCodes == {code \in U16 : PropTypeOf(code) # "Other"}

NamedVariants == {from_base_type(code) : code \in NamedCodes}

\* the values of PropType the model starts from: every named variant, and
\* Other carrying a code no variant has or the code of a named variant
OtherCodes == {3, 8, 9, 12, 30, 257, 4097, 4354, 32798, 65535}

PropTypeValues == NamedVariants \cup {Other(code) : code \in OtherCodes}

InitConv ==
    /\ buf = <<>>
    /\ pos = 0
    /\ RunIdle
    /\ TnefIdle
    /\ RtfIdle
    /\ PropIdle
    /\ CfbIdle
    /\ LoopIdle
    /\ \/ conv_pc = "code" /\ conv_in \in U16
       \/ conv_pc = "value" /\ conv_in \in PropTypeValues
    /\ conv_mid = None
    /\ conv_out = None

\* PropType::from_base_type(code)
ConvFromCode ==
    /\ conv_pc = "code"
    /\ conv_mid' = from_base_type(conv_in)
    /\ conv_pc' = "code as value"
    /\ UNCHANGED <<buf, pos, runVars, tnefVars, rtfVars, propVars, cfbVars,
                   loopVars, conv_in, conv_out>>

\* .to_base_type() of the value from_base_type returned
ConvBackToCode ==
    /\ conv_pc = "code as value"
    /\ conv_out' = to_base_type(conv_mid)
    /\ conv_pc' = "code again"
    /\ UNCHANGED <<buf, pos, runVars, tnefVars, rtfVars, propVars, cfbVars,
                   loopVars, conv_in, conv_mid>>

\* value.to_base_type()
ConvFromValue ==
    /\ conv_pc = "value"
    /\ conv_mid' = to_base_type(conv_in)
    /\ conv_pc' = "value as code"
    /\ UNCHANGED <<buf, pos, runVars, tnefVars, rtfVars, propVars, cfbVars,
                   loopVars, conv_in, conv_out>>

\* PropType::from_base_type of the code to_base_type returned
ConvBackToValue ==
    /\ conv_pc = "value as code"
    /\ conv_out' = from_base_type(conv_mid)
    /\ conv_pc' = "value again"
    /\ UNCHANGED <<buf, pos, runVars, tnefVars, rtfVars, propVars, cfbVars,
                   loopVars, conv_in, conv_mid>>

NextConv ==
    \/ ConvFromCode
    \/ ConvBackToCode
    \/ ConvFromValue
    \/ ConvBackToValue

SpecConv == InitConv /\ [][NextConv]_vars

(***************************************************************************)
(* C22.  PropType converts to its u16 code and back without loss.  A named *)
(* variant taken to its code by to_base_type comes back from               *)
(* from_base_type as the same variant.  Every u16 taken to a PropType by   *)
(* from_base_type comes back from to_base_type as the same u16; a code no  *)
(* named variant has is carried by Other(code) in between.  No two named   *)
(* variants have the same code.                                            *)
(***************************************************************************)
C22_PropTypeRoundTrip ==
    /\ conv_pc = "value again" /\ conv_in \in NamedVariants
          => conv_out = conv_in
    /\ conv_pc = "code again" => conv_out = conv_in
    /\ conv_pc \in {"code as value", "code again"} /\ conv_in \notin NamedCodes
          => conv_mid = Other(conv_in)
    /\ conv_pc \in {"value as code", "value again"}
          => \A w \in NamedVariants :
                 conv_in \in NamedVariants /\ w # conv_in
                    => to_base_type(w) # conv_mid

\* a code no variant has went through Other(code) and came back
C22_Witness ==
    /\ conv_pc = "code again"
    /\ conv_in = 32798
    /\ conv_mid = Other(32798)
    /\ conv_out = 32798

\* a named variant went through its code and came back
C22_WitnessNamed ==
    /\ conv_pc = "value again"
    /\ conv_in = Variant("MultipleBinary")
    /\ conv_mid = 4354
    /\ conv_out = conv_in

\* the code of a named variant went through that variant and came back
C22_WitnessNamedCode ==
    /\ conv_pc = "code again"
    /\ conv_in = 31
    /\ conv_mid = Variant("String")
    /\ conv_out = 31

\* Other carrying the code of a named variant comes back as that variant,
\* which PartialEq holds equal to it
C22_WitnessOtherNamed ==
    /\ conv_pc = "value again"
    /\ conv_in = Other(3)
    /\ conv_out = Variant("Integer32")
    /\ as_int_eq(conv_out, conv_in)

(***************************************************************************)
(* Claims about the LZFu dictionary and its reference tokens.              *)
(***************************************************************************)
\* a reference token is next and its two bytes are there
AtReference ==
    /\ rtf_pc = "token"
    /\ ~BitIsClear(control, bit_index)
    /\ cursor + 2 <= Len(compressed) - 16

\* the 16-bit big-endian word of that token, read off the input
TokenWord == 256 * compressed[16 + cursor + 1] + compressed[16 + cursor + 2]

\* offset and length as the claim words them
TokenOffset == (TokenWord \div 16) % 4096
TokenLength == (TokenWord % 16) + 2

\* the copy step before step i of a reference (steps count from 0) that
\* stored its byte at the cell step i reads, if there is one: the write
\* cursor was at w when the reference began
WriterOf(i, w) ==
    {j \in 0 .. (i - 1) : (w + j) % 4096 = (TokenOffset + i) % 4096}

(***************************************************************************)
(* C23.  A reference token is a big-endian 16-bit word w with offset       *)
(* (w >> 4) & 0xFFF and length (w & 0xF) + 2.  When the offset is not the  *)
(* write cursor, the step that decodes it appends exactly `length` bytes   *)
(* to the output; the i-th of them is the dictionary byte at               *)
(* (offset + i) mod 4096 as it stands when that byte is copied, so a byte  *)
(* this same reference stored there earlier is the one read; each copied   *)
(* byte is also stored at the write cursor, which advances by 1 mod 4096   *)
(* per byte.                                                               *)
(***************************************************************************)
C23_ReferenceCopies ==
    [][(AtReference /\ TokenOffset # dict.write_pos) =>
          /\ Len(ret') = Len(ret) + TokenLength
          /\ SubSeq(ret', 1, Len(ret)) = ret
          /\ \A i \in 0 .. (TokenLength - 1) :
                LET b == ret'[Len(ret) + i + 1]
                    earlier == WriterOf(i, dict.write_pos)
                IN  /\ IF earlier = {}
                       THEN b = DataAt(dict, (TokenOffset + i) % 4096)
                       ELSE \A j \in earlier : b = ret'[Len(ret) + j + 1]
                    /\ DataAt(dict', (dict.write_pos + i) % 4096) = b
          /\ dict'.write_pos = (dict.write_pos + TokenLength) % 4096
          /\ DOMAIN dict.written \subseteq DOMAIN dict'.written
          /\ \A k \in DOMAIN dict'.written :
                (\A i \in 0 .. (TokenLength - 1) :
                     k # (dict.write_pos + i) % 4096)
                    => /\ k \in DOMAIN dict.written
                       /\ dict'.written[k] = dict.written[k]]_vars

\* a reference to the byte just before the write cursor has copied 3 bytes,
\* the last two of them stored by the reference itself
C23_Witness ==
    /\ IsLzfu
    /\ Len(compressed) >= 19
    /\ SubSeq(compressed, 17, 19) = <<1, 12, 225>>
    /\ cursor = 3
    /\ ret = <<120, 120, 120>>
    /\ dict.write_pos = 210

\* a reference read across the end of the dictionary, from offset 4095 on
C23_WitnessReadWraps ==
    /\ IsLzfu
    /\ cursor >= 2
    /\ SubSeq(compressed, 16 + cursor - 1, 16 + cursor) = <<255, 241>>
    /\ dict.read_pos = 2
    /\ Len(ret) = 8 * 17 * (WrapGroups + 1) + 3

\* a reference whose copies took the write cursor across the end, reading
\* the bytes it had stored itself
C23_WitnessWriteWraps ==
    /\ IsLzfu
    /\ rtf_pc = "done"
    /\ rtf_result.status = "Ok"
    /\ Len(ret) = WrapStart - Len(INIT_DICTIONARY) + 4 * 17 + 11 + 17
    /\ dict.write_pos = 15
    /\ \A i \in 1 .. 17 : ret[Len(ret) - 17 + i] = 71

\* the cells no step has stored a byte in: the 207 bytes of the preamble at
\* 0..206, zero from 207 on
InitialCells ==
    /\ Len(INIT_DICTIONARY) = 207
    /\ \A i \in 0 .. 206 : InitialByte(i) = INIT_DICTIONARY[i + 1]
    /\ \A i \in 207 .. 4095 : InitialByte(i) = 0

\* the dictionary as CompressedRtfDict::new is claimed to leave it
FreshDictionary(d) ==
    /\ InitialCells
    /\ d.written = <<>>
    /\ d.write_pos = 207
    /\ d.read_pos = 0

\* 4096 cells, and both cursors on one of them
WithinCapacity(d) ==
    /\ DOMAIN d.written \subseteq 0 .. 4095
    /\ d.write_pos \in 0 .. 4095
    /\ d.read_pos \in 0 .. 4095

(***************************************************************************)
(* C24.  The dictionary is made with 4096 bytes: the 207 bytes of the      *)
(* preamble at offsets 0..206 and zero everywhere else, the write cursor   *)
(* at 207 and the read cursor at 0.  Whatever is decoded after that, it    *)
(* still has 4096 bytes and both cursors are within 0..4095: the write     *)
(* cursor moves on by one, modulo 4096, for each byte put out, and the     *)
(* read cursor, set to the offset of a reference, by one modulo 4096 for   *)
(* each byte the reference copies.                                         *)
(***************************************************************************)
C24_DictionaryBounds ==
    [][/\ (rtf_pc = "header" /\ rtf_pc' = "control") => FreshDictionary(dict')
       /\ WithinCapacity(dict')
       /\ rtf_pc # "header" =>
             /\ dict'.write_pos
                   = (dict.write_pos + (Len(ret') - Len(ret))) % 4096
             /\ dict'.read_pos
                   = IF AtReference /\ TokenOffset # dict.write_pos
                     THEN (TokenOffset + TokenLength) % 4096
                     ELSE dict.read_pos]_vars

\* more bytes put out than the dictionary has cells after the preamble: the
\* write cursor is back at the start, and so is the read cursor, after a
\* reference to offset 4095
C24_Witness ==
    /\ IsLzfu
    /\ RtfDone
    /\ Len(ret) = 3954
    /\ dict.write_pos = 65
    /\ dict.read_pos = 2

\* the dictionary just made
C24_WitnessFresh ==
    /\ IsLzfu
    /\ rtf_pc = "control"
    /\ cursor = 0
    /\ Len(compressed) > 16
    /\ FreshDictionary(dict)

\* the u32 at offset 8, little endian, read off the input as <<high, low>>
MagicOnWire ==
    <<compressed[11] + 256 * compressed[12],
      compressed[9] + 256 * compressed[10]>>

\* nothing was decoded: no dictionary was made and no output byte exists
NoOutput ==
    /\ rtf_result.value = <<>>
    /\ ret = <<>>
    /\ dict = NoDict
    /\ cursor = 0

(***************************************************************************)
(* C25.  decode_compressed_rtf gives an input shorter than 16 bytes the    *)
(* error HeaderTooShort, and an input of 16 bytes or more whose magic (the *)
(* little-endian u32 at offset 8) is neither 0x414C454D (MELA) nor         *)
(* 0x75465A4C (LZFu) the error UnsupportedCompression carrying that magic; *)
(* in both cases nothing is put out.                                       *)
(***************************************************************************)
C25_HeaderErrors ==
    RtfDone =>
        /\ Len(compressed) < 16 =>
              /\ rtf_result.status = "Err"
              /\ rtf_result.error.kind = "HeaderTooShort"
              /\ rtf_result.error.expected = 16
              /\ rtf_result.error.obtained = Len(compressed)
              /\ NoOutput
        /\ (Len(compressed) >= 16
               /\ MagicOnWire # <<16716, 17741>>
               /\ MagicOnWire # <<30022, 23116>>) =>
              /\ rtf_result.status = "Err"
              /\ rtf_result.error.kind = "UnsupportedCompression"
              /\ rtf_result.error.compression_type = MagicOnWire
              /\ NoOutput

\* a magic one bit away from LZFu, with a body after the header
C25_Witness ==
    /\ RtfDone
    /\ Len(compressed) > 16
    /\ MagicOnWire = <<30022, 23084>>
    /\ rtf_result.error.kind = "UnsupportedCompression"

\* fifteen bytes: the magic is all there, the crc is not
C25_WitnessShort ==
    /\ RtfDone
    /\ Len(compressed) = 15
    /\ SubSeq(compressed, 9, 12) = <<76, 90, 70, 117>>
    /\ rtf_result.error.kind = "HeaderTooShort"

\* no input at all
C25_WitnessEmpty ==
    /\ RtfDone
    /\ compressed = <<>>
    /\ rtf_result.error.obtained = 0

\* the input bytes left after the cursor over the LZFu body
BodyLeft == Len(compressed) - 16 - cursor

\* the bytes the token at hand needs: one for a literal, two for a reference
TokenNeeds == IF BitIsClear(control, bit_index) THEN 1 ELSE 2

(***************************************************************************)
(* C26.  For an LZFu input, decode_compressed_rtf returns Ok only from the *)
(* place where it would read a control byte, and only if no input byte is  *)
(* left there.  If the input runs out inside a group of 8 tokens (the byte *)
(* of a literal or one of the two bytes of a reference is missing, and no  *)
(* end marker has ended the group before), the call returns an Io error,   *)
(* and the bytes decoded up to there are not returned.                     *)
(***************************************************************************)
C26_OkOnlyAtGroupEnd ==
    [][(IsLzfu /\ rtf_pc # "header" /\ rtf_pc' = "done") =>
          /\ rtf_result'.status = "Ok" <=> rtf_pc = "control"
          /\ rtf_pc = "control" =>
                /\ BodyLeft = 0
                /\ rtf_result'.value = ret
          /\ rtf_pc = "token" =>
                /\ BodyLeft < TokenNeeds
                /\ rtf_result'.status = "Err"
                /\ rtf_result'.error.kind = "Io"
                /\ rtf_result'.value = <<>>]_vars

\* the input ran out at the second token of a group, after a literal had
\* been decoded
C26_Witness ==
    /\ IsLzfu
    /\ RtfDone
    /\ rtf_result.status = "Err"
    /\ rtf_result.error.kind = "Io"
    /\ bit_index = 1
    /\ Len(ret) = 1
    /\ BodyLeft = 0

\* one byte of a reference word is there, the other is not
C26_WitnessHalfWord ==
    /\ IsLzfu
    /\ RtfDone
    /\ rtf_result.status = "Err"
    /\ ~BitIsClear(control, bit_index)
    /\ BodyLeft = 1

\* groups of 8 tokens were decoded in full and the body ended after the
\* last of them, a group of literals
C26_WitnessOk ==
    /\ IsLzfu
    /\ RtfDone
    /\ rtf_result.status = "Ok"
    /\ ~end_marker_seen
    /\ BodyLeft = 0
    /\ Len(ret) = WrapStart - Len(INIT_DICTIONARY) + 88
    /\ rtf_result.value = ret
    /\ ret[Len(ret)] = 72

\* an LZFu decode is under way or over: the dictionary has been made
LzfuDecoding == IsLzfu /\ rtf_pc # "header"

(***************************************************************************)
(* C27.  At every point of an LZFu decode the write cursor of the          *)
(* dictionary is (207 + the number of bytes appended to the output so far) *)
(* mod 4096: each output byte, literal or copied by a reference, has been  *)
(* stored in the dictionary once, at the cell the cursor was on, and       *)
(* nothing else has moved the cursor.  So the cells behind the cursor hold *)
(* the last output bytes, as many as 4096 of them.                         *)
(***************************************************************************)
C27_WriteCursorCountsOutput ==
    LzfuDecoding =>
        /\ dict.write_pos = (207 + Len(ret)) % 4096
        /\ \A k \in 1 .. Len(ret) :
              k > Len(ret) - 4096 => DataAt(dict, (206 + k) % 4096) = ret[k]
        /\ DOMAIN dict.written = {(206 + k) % 4096 : k \in 1 .. Len(ret)}

\* 3896 bytes put out, the last of them literals: the cursor has passed the
\* end of the dictionary and stands at 7
C27_Witness ==
    /\ LzfuDecoding
    /\ RtfDone
    /\ Len(ret) = 3896
    /\ dict.write_pos = 7
    /\ DataAt(dict, 6) = 72

\* an end marker was read and decoding went on: it moved nothing
C27_WitnessEndMarker ==
    /\ LzfuDecoding
    /\ end_marker_seen
    /\ Len(ret) > 0
    /\ rtf_pc = "token"

(***************************************************************************)
(* C28.  decode_compressed_rtf terminates on every finite input: it        *)
(* returns Ok or Err in the end.  Each iteration of the outer loop that    *)
(* does not return consumes one input byte, the control byte; each token   *)
(* consumes one or two bytes more or ends the call with an error; a        *)
(* reference copies at most 17 bytes.  So the output is never longer than  *)
(* 17 times the number of reference tokens plus the number of literal      *)
(* tokens.                                                                 *)
(***************************************************************************)
C28_Terminates ==
    /\ <>(RtfDone /\ rtf_result.status \in {"Ok", "Err"})
    /\ [](Len(ret) <= 17 * reference_tokens + literal_tokens)
    /\ [][/\ (rtf_pc = "control" /\ rtf_pc' # "done") => cursor' = cursor + 1
          /\ rtf_pc = "token" =>
                \/ cursor' - cursor \in {1, 2}
                \/ /\ rtf_pc' = "done"
                   /\ rtf_result'.status = "Err"
                   /\ cursor' = cursor
          /\ Len(ret') - Len(ret) <= 17
          /\ cursor' >= cursor
          /\ cursor' <= Len(compressed)]_vars

\* a call that returned with as many output bytes as its tokens allow:
\* references of the longest length and literals
C28_Witness ==
    /\ IsLzfu
    /\ RtfDone
    /\ reference_tokens >= 2
    /\ literal_tokens >= 2
    /\ Len(ret) = 17 * reference_tokens + literal_tokens

\* a call that returned after an end marker, which put out nothing
C28_WitnessEndMarker ==
    /\ IsLzfu
    /\ RtfDone
    /\ end_marker_seen
    /\ reference_tokens = 1
    /\ ret = <<>>

\* record i of the log is a Boolean record whose 16 bytes are in the stream
LogBoolean(i) == LogComplete(i) /\ LogType(i) = 11

\* byte k (from 0) of the 8 payload bytes of record i
LogPayload(i, k) == ByteAt(LogStream(i), record_log[i].start + 8 + k)

(***************************************************************************)
(* C30.  In the CFB reader a Boolean record, stored inline, never fails on *)
(* its value: the record is listed with the value false when the first of  *)
(* its 8 payload bytes is 0x00 and true for every other byte, whatever the *)
(* other 7 bytes are; exactly 8 payload bytes are consumed, so the reader  *)
(* goes on 16 bytes after the start of the record; and no call returns     *)
(* InvalidBoolean.                                                         *)
(***************************************************************************)
C30_CfbBoolean ==
    /\ \A i \in 1..Len(record_log) :
          LogBoolean(i) =>
              /\ record_log[i].outcome = "push"
              /\ record_log[i].property.value.tag = LogTag(i)
              /\ record_log[i].property.value.value
                    = [variant |-> "Boolean", value |-> LogPayload(i, 0) # 0]
              /\ (/\ i = LastLog
                  /\ cfb_pc = "record"
                  /\ path_prefix = record_log[i].prefix) =>
                    stream_pos = record_log[i].start + 16
              /\ (i < LastLog /\ record_log[i + 1].prefix = record_log[i].prefix) =>
                    record_log[i + 1].start = record_log[i].start + 16
    /\ cfb_result.status = "Err" => cfb_result.error.kind # "InvalidBoolean"

\* a first payload byte of 2, which the TNEF decoder rejects, listed as
\* true, and the record after it read
C30_Witness ==
    \E i \in 1..Len(record_log) :
        /\ LogBoolean(i)
        /\ LogPayload(i, 0) = 2
        /\ record_log[i].property.value.value.value = TRUE
        /\ i < LastLog
        /\ record_log[i + 1].start = record_log[i].start + 16

\* a first payload byte of 0 followed by bytes that are not 0: false
C30_WitnessRestIgnored ==
    \E i \in 1..Len(record_log) :
        /\ LogBoolean(i)
        /\ LogPayload(i, 0) = 0
        /\ LogPayload(i, 1) = 1
        /\ LogPayload(i, 7) = 255
        /\ record_log[i].property.value.value.value = FALSE
        /\ cfb_result.status = "Ok"

\* the type codes of the properties whose value is kept in one stream
SingleStreamCodes == {13, 30, 31, 72, 258} \cup ExternalFixedCodes

\* record i is a complete record of such a type
LogSingleStream(i) == LogComplete(i) /\ LogType(i) \in SingleStreamCodes

\* the value stream of record i exists and its content is valid for the
\* type: UTF-16 of even length with paired surrogates, UTF-8, a GUID of 16
\* bytes, a whole number of elements
LogValueUsable(i) ==
    /\ LogLengthsPath(i) \in DOMAIN msg
    /\ LET bytes == msg[LogLengthsPath(i)]
       IN  CASE LogType(i) = 31 ->
                    Len(bytes) % 2 = 0 /\ WellPaired(WireWords(bytes))
             [] LogType(i) = 30 -> from_utf8_ok(bytes, 1)
             [] LogType(i) = 72 -> Len(bytes) = 16
             [] LogType(i) \in {13, 258} -> TRUE
             [] OTHER -> Len(bytes) % ChunkBytes(LogType(i)) = 0

\* the records of a storage that were begun, and those of them listed
LogOf(prefix) == {i \in 1..Len(record_log) : record_log[i].prefix = prefix}
PushedOf(prefix) == {i \in LogOf(prefix) : record_log[i].outcome = "push"}

(***************************************************************************)
(* C29.  In the CFB reader a String, String8, Binary, Guid, Object or      *)
(* fixed-width Multiple* property whose value stream cannot be opened or   *)
(* whose content is invalid (odd-length or ill-formed UTF-16, invalid      *)
(* UTF-8, a GUID that is not 16 bytes, a length that is not a multiple of  *)
(* the element size) is left out without an error, and read_properties     *)
(* goes on with the next record; a property whose stream is usable is      *)
(* listed.  So the list returned for a storage holds the properties of the *)
(* records listed, in the order of the records, and can be shorter than    *)
(* the number of records.                                                  *)
(***************************************************************************)
C29_UnusableValueSkipped ==
    /\ \A i \in 1..Len(record_log) :
          LogSingleStream(i) =>
              /\ record_log[i].outcome
                    = IF LogValueUsable(i) THEN "push" ELSE "continue"
              /\ (i < LastLog /\ record_log[i + 1].prefix = record_log[i].prefix)
                    => record_log[i + 1].start = record_log[i].start + 16
              /\ (/\ i = LastLog
                  /\ cfb_pc = "record"
                  /\ path_prefix = record_log[i].prefix) =>
                    stream_pos = record_log[i].start + 16
    /\ cfb_result.status = "Ok" =>
          \A i \in 1..Len(record_log) :
              LET list == ReturnedList(record_log[i].prefix)
              IN  /\ Len(list) = Cardinality(PushedOf(record_log[i].prefix))
                  /\ Len(list) =< Cardinality(LogOf(record_log[i].prefix))
                  /\ record_log[i].outcome = "push" =>
                        list[PushIndex(i)] = record_log[i].property.value

\* a String whose stream is missing, left out between nothing and an
\* Integer32 that is listed: two records, one property returned
C29_Witness ==
    /\ cfb_result.status = "Ok"
    /\ Len(record_log) >= 2
    /\ LogSingleStream(1)
    /\ LogType(1) = 31
    /\ LogLengthsPath(1) \notin DOMAIN msg
    /\ record_log[1].outcome = "continue"
    /\ record_log[2].prefix = record_log[1].prefix
    /\ record_log[2].outcome = "push"
    /\ Len(ReturnedList(record_log[1].prefix))
          < Cardinality(LogOf(record_log[1].prefix))

\* ill-formed content of each kind, left out: a lone surrogate, an odd
\* length, invalid UTF-8, a GUID of 15 bytes, a MultipleInteger32 of 5 bytes
C29_WitnessSurrogate ==
    /\ Len(record_log) >= 2
    /\ LogSingleStream(1)
    /\ LogType(1) = 31
    /\ LogLengthsPath(1) \in DOMAIN msg
    /\ msg[LogLengthsPath(1)] = <<0, 216>>
    /\ record_log[1].outcome = "continue"

C29_WitnessOdd ==
    /\ Len(record_log) >= 2
    /\ LogSingleStream(1)
    /\ LogType(1) = 31
    /\ LogLengthsPath(1) \in DOMAIN msg
    /\ Len(msg[LogLengthsPath(1)]) = 3
    /\ record_log[1].outcome = "continue"

C29_WitnessUtf8 ==
    /\ Len(record_log) >= 2
    /\ LogSingleStream(1)
    /\ LogType(1) = 30
    /\ LogLengthsPath(1) \in DOMAIN msg
    /\ msg[LogLengthsPath(1)] = <<195>>
    /\ record_log[1].outcome = "continue"

C29_WitnessGuid ==
    /\ Len(record_log) >= 2
    /\ LogSingleStream(1)
    /\ LogType(1) = 72
    /\ LogLengthsPath(1) \in DOMAIN msg
    /\ Len(msg[LogLengthsPath(1)]) = 15
    /\ record_log[1].outcome = "continue"

C29_WitnessFixed ==
    /\ Len(record_log) >= 2
    /\ LogSingleStream(1)
    /\ LogType(1) = 4099
    /\ LogLengthsPath(1) \in DOMAIN msg
    /\ Len(msg[LogLengthsPath(1)]) = 5
    /\ record_log[1].outcome = "continue"
    /\ cfb_result.status = "Ok"

\* a Binary whose stream is missing, and one whose stream is there
C29_WitnessBinary ==
    /\ Len(record_log) >= 1
    /\ LogSingleStream(1)
    /\ LogType(1) = 258
    /\ LogLengthsPath(1) \notin DOMAIN msg
    /\ record_log[1].outcome = "continue"
    /\ cfb_result.status = "Ok"
    /\ cfb_result.value.properties = <<>>

C29_WitnessListed ==
    /\ Len(record_log) >= 1
    /\ LogSingleStream(1)
    /\ LogType(1) = 258
    /\ LogLengthsPath(1) \in DOMAIN msg
    /\ record_log[1].outcome = "push"
    /\ record_log[1].property.value.value.value = <<1, 2, 3>>

====
